---------------------------- MODULE Spec2Model ----------------------------
(***************************************************************************)
(* Selectra (src/app.py): a heuristic interview-answer scoring engine      *)
(* behind three HTTP handlers and an in-memory session store.              *)
(*                                                                         *)
(* Numbers.  Ratios (uniqueRatio, keywordMatchRatio, realWordRatio) are    *)
(* kept in hundredths (0.67 is 67) and scores in hundredths too (7.5 is    *)
(* 750), so that Python's round(x, 1) and round(x, 2) are real steps of    *)
(* the model.  Texts are TLA+ strings, read character by character.        *)
(***************************************************************************)
EXTENDS Integers, Sequences, FiniteSets, TLC

VARIABLES
    sessions,      \* app.py:101  the in-memory store: session id -> {answers, user}
    response,      \* the reply sent last, to a request served alone
    signals,       \* a Signals value given to the scorers and generators
    arg_score,     \* a score given to the generators
    arg_dimension, \* the dimension that score is of
    result,        \* what the scorers and generators returned
    answers_data,  \* a sequence of stored answers given to the aggregation
    insights,      \* what the aggregation returned for answers_data
    threads,       \* the threads of the server, each at its step
    heap           \* the lists the store let go of that a thread holds

vars ==
    <<sessions, response, signals, arg_score, arg_dimension, result,
      answers_data, insights, threads, heap>>

---------------------------------------------------------------------------
(* Small arithmetic helpers.                                               *)

Min(a, b) == IF a <= b THEN a ELSE b

Max(a, b) == IF a >= b THEN a ELSE b

Sign(v) == IF v > 0 THEN 1 ELSE IF v < 0 THEN -1 ELSE 0

\* Body(value), the value being worked out once and then named: the model
\* checker works out an operator's argument anew at each place it is used.
With(value, Body(_)) == CHOOSE r \in {Body(v) : v \in {value}} : TRUE

RECURSIVE Pow2(_)
Pow2(n) == IF n = 0 THEN 1 ELSE 2 * Pow2(n - 1)

\* 2^n mod m by repeated squaring, without ever forming 2^n.
RECURSIVE Pow2Mod(_, _)
Pow2Mod(n, m) ==
    IF n = 0 THEN 1 % m
    ELSE IF n % 2 = 0
         THEN LET h == Pow2Mod(n \div 2, m) IN (h * h) % m
         ELSE (2 * Pow2Mod(n - 1, m)) % m

---------------------------------------------------------------------------
(* IEEE-754 doubles, as far as Python's round() can see them.              *)
(*                                                                         *)
(* A double x that stands for the fraction K/D carries an error; it is     *)
(* kept as the integer E with  D * 2^56 * x = K * 2^56 + E.  Python's      *)
(* round(x, n) rounds the exact binary value of x, so on a decimal tie     *)
(* (x.x5) the sign of E decides, and only E = 0 is a true tie, broken to   *)
(* the even digit.                                                         *)

\* The binade of a positive value (K * 2^56 + E) / (D * 2^56): the largest
\* j with value >= 2^(j - 4), searched upwards from j = -12.  l / r is the
\* value K / D over 2^(j - 4).
RECURSIVE BinadeFrom(_, _, _, _)
BinadeFrom(l, r, E, j) ==
    IF l > 2 * r \/ (l = 2 * r /\ E >= 0)
    THEN BinadeFrom(l, 2 * r, E, j + 1)
    ELSE j

Binade(K, E, D) == BinadeFrom(65536 * K, D, E, -12)

\* Round-to-nearest-even of the real (K * 2^56 + E) / (D * 2^56) to a double
\* (53-bit significand).  Returns [d, a]: the double minus K/D, in units of
\* 1 / (D * 2^(56 + a)).
FlRound(K, E, D) ==
    IF K = 0 /\ E = 0 THEN [d |-> 0, a |-> 0]
    ELSE With(Binade(K, E, D), LAMBDA j :
         LET a    == Max(0, -j)
             B    == D * Pow2(Max(0, j))
             Ea   == E * Pow2(a)
             rem  == (K * Pow2Mod(56 + a, B) + Ea) % B
             rem2 == (K * Pow2Mod(56 + a, 2 * B) + Ea) % (2 * B)
             up   == 2 * rem > B \/ (2 * rem = B /\ rem2 >= B)
         IN  [d |-> Ea - rem + (IF up THEN B ELSE 0), a |-> a])

\* The double nearest to K/10 (what round(x, 1) returns for K tenths).
Fl10(K) == [K |-> K, E |-> FlRound(K, 0, 10).d]

\* x + y in double arithmetic, for doubles standing for tenths.
FlAdd(x, y) ==
    With(<<x, y>>, LAMBDA t :
         [K |-> t[1].K + t[2].K,
          E |-> FlRound(t[1].K + t[2].K, t[1].E + t[2].E, 10).d])

\* The integer a tie between q and q + 1 rounds to, s being the sign of
\* (value - tie).
RoundTie(q, s) ==
    IF s > 0 THEN q + 1
    ELSE IF s < 0 THEN q
    ELSE IF q % 2 = 0 THEN q ELSE q + 1

\* Python round(n / d) for integers n >= 0, d > 0: n/d is a double, and a
\* tie (k + 0.5) is exact, so it goes to the even integer.
RoundInt(n, d) ==
    LET q == n \div d
        r == n % d
    IN  IF 2 * r < d THEN q
        ELSE IF 2 * r > d THEN q + 1
        ELSE RoundTie(q, 0)

\* Python round(n / d, 2) in hundredths, for integers 0 <= n, 0 < d.
Round2(n, d) ==
    LET q == (100 * n) \div d
        r == (100 * n) % d
    IN  IF 2 * r < d THEN q
        ELSE IF 2 * r > d THEN q + 1
        ELSE RoundTie(q, Sign(FlRound(n, 0, d).d))

\* Python round(h / 100, 1) in hundredths, for a value h hundredths whose
\* last digit is never 5 (the scorers add halves, multiples of 0.8 and
\* the double of a ratio).
Round1(h) ==
    LET r == h % 10
    IN  IF r < 5 THEN h - r ELSE h - r + 10

---------------------------------------------------------------------------
(* The rubric: app.py:22-98.                                               *)

QUESTIONS == <<
    [id |-> 1,
     text |-> "Tell us about yourself and your most relevant experience for this role.",
     keywords |-> <<
        "experience", "skills", "projects", "team", "work", "developed",
        "built", "managed", "led", "design", "engineering", "technology",
        "software", "programming", "role", "company", "university",
        "degree"
     >>,
     category |-> "Introduction"],
    [id |-> 2,
     text |-> "Describe a challenging technical problem you faced and how you solved it.",
     keywords |-> <<
        "problem", "solution", "debug", "fix", "analyze", "approach",
        "algorithm", "optimize", "issue", "resolved", "implemented",
        "strategy", "code", "tested", "performance", "architecture",
        "system", "logic"
     >>,
     category |-> "Problem Solving"],
    [id |-> 3,
     text |-> "What do you understand about data structures and when would you use a hash map vs an array?",
     keywords |-> <<
        "data structure", "hash", "map", "array", "lookup",
        "time complexity", "O(1)", "O(n)", "key", "value", "index",
        "search", "insert", "collision", "list", "memory", "performance",
        "access"
     >>,
     category |-> "Technical Knowledge"],
    [id |-> 4,
     text |-> "How do you approach working in a team? Can you give an example of a team collaboration?",
     keywords |-> <<
        "team", "collaborate", "communication", "agile", "scrum",
        "feedback", "conflict", "resolution", "together", "shared",
        "responsibility", "deadline", "meeting", "review", "code review",
        "pair", "support"
     >>,
     category |-> "Teamwork"],
    [id |-> 5,
     text |-> "Where do you see yourself in 3 years, and how does this role align with your goals?",
     keywords |-> <<
        "goal", "growth", "learn", "career", "leadership", "impact",
        "skill", "advance", "contribute", "develop", "mentor",
        "specialize", "expertise", "passion", "opportunity", "industry",
        "vision"
     >>,
     category |-> "Career Goals"]
>>

FILLER_WORDS == <<
    "maybe", "perhaps", "i think", "i guess", "not sure", "possibly",
    "kind of", "sort of", "basically", "um", "uh", "probably",
    "i don't know", "might", "could be", "not really", "unsure",
    "i suppose", "honestly", "actually"
>>

ASSERTIVE_PHRASES == <<
    "i am confident", "i believe", "i know", "i have", "i can", "i will",
    "i achieved", "i successfully", "definitely", "certainly", "clearly"
>>

EXAMPLE_PHRASES == <<
    "for example", "for instance", "such as", "specifically",
    "in particular", "like when", "one time"
>>

\* The four rubric dimensions, in the order the code walks them.
Dimensions == <<"clarity", "accuracy", "completeness", "confidence">>

---------------------------------------------------------------------------
(* Python's string operations, on ASCII text.  A text that is searched is  *)
(* read as the tuple of its characters.                                    *)

UpperLetters == "ABCDEFGHIJKLMNOPQRSTUVWXYZ"

LowerLetters == "abcdefghijklmnopqrstuvwxyz"

DigitChars == "0123456789"

Char(s, i) == SubSeq(s, i, i)

Chars(s) == [i \in 1..Len(s) |-> Char(s, i)]

CharsOf(s) == {Char(s, i) : i \in 1..Len(s)}

UpperSet == CharsOf(UpperLetters)

LowerSet == CharsOf(LowerLetters)

\* str.split() and str.strip() with no argument cut at whitespace: of the
\* ASCII characters, the space, \t, \n, \r, \f (0x0c), and the five
\* control characters written raw in the second line: 0x0b (VT), 0x1c (FS),
\* 0x1d (GS), 0x1e (RS), 0x1f (US).
Whitespace ==
    {" ", "\t", "\n", "\r", "\f",
     "", "", "", "", ""}

\* The characters the regular expression class \w matches.
WordChars == UpperSet \cup LowerSet \cup CharsOf(DigitChars) \cup {"_"}

LowerOf == [c \in UpperSet |->
               Char(LowerLetters, CHOOSE i \in 1..26 : Char(UpperLetters, i) = c)]

UpperOf == [c \in LowerSet |->
               Char(UpperLetters, CHOOSE i \in 1..26 : Char(LowerLetters, i) = c)]

LowerChar(c) == IF c \in UpperSet THEN LowerOf[c] ELSE c

UpperChar(c) == IF c \in LowerSet THEN UpperOf[c] ELSE c

\* s.lower(), as a tuple of characters
Lower(s) == [i \in 1..Len(s) |-> LowerChar(Char(s, i))]

\* s.strip()
Strip(s) ==
    LET keep == {i \in 1..Len(s) : Char(s, i) \notin Whitespace}
    IN  IF keep = {} THEN ""
        ELSE SubSeq(s, CHOOSE i \in keep : \A k \in keep : i <= k,
                       CHOOSE i \in keep : \A k \in keep : i >= k)

\* The maximal runs of characters of s outside seps, each as <<first, last>>.
Runs(s, seps) ==
    LET in(i) == i >= 1 /\ i <= Len(s) /\ Char(s, i) \notin seps
    IN  {<<i, j>> \in (1..Len(s)) \X (1..Len(s)) :
            /\ i <= j
            /\ \A k \in i..j : in(k)
            /\ ~in(i - 1)
            /\ ~in(j + 1)}

\* s.split(): the words of s, each as <<first, last>>
Split(s) == Runs(s, Whitespace)

\* needle in hay, both tuples of characters
Contains(hay, needle) ==
    \E i \in 1..(Len(hay) - Len(needle) + 1) :
        SubSeq(hay, i, i + Len(needle) - 1) = needle

\* The regular expression anchor \b before position p of s (1..Len(s)+1):
\* exactly one of the characters around it is a word character.
WordBoundary(s, p) ==
    LET before == p > 1 /\ s[p - 1] \in WordChars
        after  == p <= Len(s) /\ s[p] \in WordChars
    IN  before # after

\* Where r'\b' + re.escape(pat) + r'\b' matches in s.
WholeMatches(s, pat) ==
    {i \in 1..(Len(s) - Len(pat) + 1) :
        /\ SubSeq(s, i, i + Len(pat) - 1) = pat
        /\ WordBoundary(s, i)
        /\ WordBoundary(s, i + Len(pat))}

\* len(re.findall(...)): the matches are taken left to right, the search
\* going on after the end of each match.
RECURSIVE CountFindall(_, _, _)
CountFindall(at, len, i) ==
    LET next == {m \in at : m >= i}
    IN  IF next = {} THEN 0
        ELSE LET m == CHOOSE m \in next : \A k \in next : m <= k
             IN  1 + CountFindall(at, len, m + len)

Range(seq) == {seq[i] : i \in 1..Len(seq)}

RECURSIVE SumSeq(_)
SumSeq(seq) == IF seq = <<>> THEN 0 ELSE Head(seq) + SumSeq(Tail(seq))

---------------------------------------------------------------------------
(* detect_signals: app.py:108-190.                                         *)

Vowels == CharsOf("aeiouAEIOU")

SentenceEnds == {".", "!", "?"}

\* app.py:124
unique_ratio(nUnique, word_count) ==
    IF word_count > 0 THEN Round2(nUnique, word_count) ELSE 0

\* app.py:131-133
keyword_match_ratio(nMatched, nKeywords) ==
    IF nKeywords > 0 THEN Round2(nMatched, nKeywords) ELSE 0

\* app.py:160-163
avg_sentence_len(word_count, sentence_count) ==
    IF sentence_count > 0 THEN RoundInt(word_count, sentence_count)
    ELSE word_count

\* app.py:172
real_word_ratio(nReal, word_count) ==
    IF word_count > 0 THEN Round2(nReal, word_count) ELSE 0

\* A faulty test: a short answer without keywords is gibberish whatever
\* its real-word ratio.
is_gibberish_short_and_keyword_free(rwr, word_count, kmr) ==
    \/ rwr < 40
    \/ (word_count > 0 /\ kmr = 0 /\ word_count < 15)

\* app.py:173, on ratios in hundredths
is_gibberish(rwr, word_count, kmr) ==
    \/ rwr < 40
    \/ (word_count > 0 /\ kmr = 0 /\ rwr < 60 /\ word_count < 15)

detect_signals(answer, question) ==
    LET lower_answer == Lower(answer)
        words == Split(answer)
        word_count == Cardinality(words)
        \* re.split(r'[.!?]+', answer), then strip() and drop the empty ones
        sentences == {p \in Runs(answer, SentenceEnds) :
                         Strip(SubSeq(answer, p[1], p[2])) # ""}
        sentence_count == Cardinality(sentences)
        unique_words == {SubSeq(lower_answer, w[1], w[2]) : w \in words}
        matched_keywords ==
            SelectSeq(question.keywords,
                      LAMBDA kw : Contains(lower_answer, Lower(kw)))
        kmr == keyword_match_ratio(Len(matched_keywords),
                                   Len(question.keywords))
        matches == [i \in 1..Len(FILLER_WORDS) |->
                        CountFindall(WholeMatches(lower_answer,
                                                  Chars(FILLER_WORDS[i])),
                                     Len(FILLER_WORDS[i]), 1)]
        filler_words_found ==
            SelectSeq([i \in 1..Len(FILLER_WORDS) |->
                          IF matches[i] > 0 THEN FILLER_WORDS[i] ELSE ""],
                      LAMBDA f : f # "")
        assertive_found ==
            SelectSeq(ASSERTIVE_PHRASES,
                      LAMBDA phrase : Contains(lower_answer, Chars(phrase)))
        real_words ==
            {w \in words : /\ w[2] - w[1] + 1 >= 3
                           /\ \E k \in w[1]..w[2] : Char(answer, k) \in Vowels}
        rwr == real_word_ratio(Cardinality(real_words), word_count)
    IN  [wordCount         |-> word_count,
         sentenceCount     |-> sentence_count,
         uniqueRatio       |-> unique_ratio(Cardinality(unique_words),
                                            word_count),
         matchedKeywords   |-> matched_keywords,
         totalKeywords     |-> Len(question.keywords),
         keywordMatchRatio |-> kmr,
         fillerWordsFound  |-> filler_words_found,
         fillerCount       |-> SumSeq(matches),
         assertiveFound    |-> assertive_found,
         hasExamples       |-> \E i \in 1..Len(EXAMPLE_PHRASES) :
                                   Contains(lower_answer,
                                            Chars(EXAMPLE_PHRASES[i])),
         startsWithCapital |-> Len(answer) > 0
                               /\ Char(answer, 1) = UpperChar(Char(answer, 1)),
         avgSentenceLen    |-> avg_sentence_len(word_count, sentence_count),
         realWordRatio     |-> rwr,
         isGibberish       |-> is_gibberish(rwr, word_count, kmr)]

---------------------------------------------------------------------------
(* The four scorers: app.py:193-339.  Scores are in hundredths.            *)

score_clarity(s) ==
    IF s.isGibberish THEN Round1(Min(100, s.realWordRatio * 2))
    ELSE LET base == 500
             bySentences == IF s.sentenceCount >= 3 THEN 200
                            ELSE IF s.sentenceCount >= 2 THEN 100 ELSE 0
             wc == s.wordCount
             byWords == IF 30 <= wc /\ wc <= 200 THEN 200
                        ELSE IF wc >= 15 THEN 100 ELSE -200
             capital == IF s.startsWithCapital THEN 50 ELSE 0
             repetition == IF s.uniqueRatio < 40 THEN -200 ELSE 0
             score == base + bySentences + byWords + capital + repetition
         IN  Round1(Min(1000, Max(0, score)))

\* A faulty scorer: the gibberish test of app.py:233-235 is left out.
score_accuracy_whatever_the_words(s) ==
    LET ratio == s.keywordMatchRatio
        base == IF ratio >= 50 THEN 900
                ELSE IF ratio >= 35 THEN 750
                ELSE IF ratio >= 25 THEN 600
                ELSE IF ratio >= 15 THEN 450
                ELSE IF ratio >= 5 THEN 300
                ELSE 150
        score == IF Len(s.matchedKeywords) >= 6
                 THEN Min(1000, base + 100) ELSE base
    IN  Round1(Min(1000, Max(0, score)))

\* A faulty scorer: the bonus goes to fewer than six matched keywords.
score_accuracy_bonus_below_six(s) ==
    IF s.isGibberish THEN 0
    ELSE LET ratio == s.keywordMatchRatio
             base == IF ratio >= 50 THEN 900
                     ELSE IF ratio >= 35 THEN 750
                     ELSE IF ratio >= 25 THEN 600
                     ELSE IF ratio >= 15 THEN 450
                     ELSE IF ratio >= 5 THEN 300
                     ELSE 150
             score == IF Len(s.matchedKeywords) < 6
                      THEN Min(1000, base + 100) ELSE base
         IN  Round1(Min(1000, Max(0, score)))

score_accuracy(s) ==
    IF s.isGibberish THEN 0
    ELSE LET ratio == s.keywordMatchRatio
             base == IF ratio >= 50 THEN 900
                     ELSE IF ratio >= 35 THEN 750
                     ELSE IF ratio >= 25 THEN 600
                     ELSE IF ratio >= 15 THEN 450
                     ELSE IF ratio >= 5 THEN 300
                     ELSE 150
             score == IF Len(s.matchedKeywords) >= 6
                      THEN Min(1000, base + 100) ELSE base
         IN  Round1(Min(1000, Max(0, score)))

\* A faulty scorer: the example bonus of app.py:291-292 is left out.
score_completeness_without_examples(s) ==
    IF s.isGibberish THEN 0
    ELSE LET base == 300
             wc == s.wordCount
             byWords == IF wc >= 80 THEN 300
                        ELSE IF wc >= 50 THEN 250
                        ELSE IF wc >= 30 THEN 150
                        ELSE IF wc >= 15 THEN 50
                        ELSE -100
             sc == s.sentenceCount
             bySentences == IF sc >= 5 THEN 250
                            ELSE IF sc >= 3 THEN 150
                            ELSE IF sc >= 2 THEN 50 ELSE 0
             score == base + byWords + bySentences
         IN  Round1(Min(1000, Max(0, score)))

score_completeness(s) ==
    IF s.isGibberish THEN 0
    ELSE LET base == 300
             wc == s.wordCount
             byWords == IF wc >= 80 THEN 300
                        ELSE IF wc >= 50 THEN 250
                        ELSE IF wc >= 30 THEN 150
                        ELSE IF wc >= 15 THEN 50
                        ELSE -100
             sc == s.sentenceCount
             bySentences == IF sc >= 5 THEN 250
                            ELSE IF sc >= 3 THEN 150
                            ELSE IF sc >= 2 THEN 50 ELSE 0
             examples == IF s.hasExamples THEN 50 ELSE 0
             score == base + byWords + bySentences + examples
         IN  Round1(Min(1000, Max(0, score)))

\* A faulty scorer: the clamp to [0, 10] of app.py:329 is left out.
score_confidence_unclamped(s) ==
    IF s.isGibberish THEN 0
    ELSE LET base == 500
             wc == s.wordCount
             byWords == IF wc >= 40 THEN 200
                        ELSE IF wc >= 20 THEN 150
                        ELSE IF wc >= 10 THEN 50
                        ELSE -200
             fillers == Min(s.fillerCount * 80, 400)
             assertive == Min(Len(s.assertiveFound) * 50, 200)
             realWords == IF s.realWordRatio >= 80 THEN 50 ELSE 0
             score == base + byWords - fillers + assertive + realWords
         IN  Round1(score)

score_confidence(s) ==
    IF s.isGibberish THEN 0
    ELSE LET base == 500
             wc == s.wordCount
             byWords == IF wc >= 40 THEN 200
                        ELSE IF wc >= 20 THEN 150
                        ELSE IF wc >= 10 THEN 50
                        ELSE -200
             fillers == Min(s.fillerCount * 80, 400)
             assertive == Min(Len(s.assertiveFound) * 50, 200)
             realWords == IF s.realWordRatio >= 80 THEN 50 ELSE 0
             score == base + byWords - fillers + assertive + realWords
         IN  Round1(Min(1000, Max(0, score)))

compute_scores(s) ==
    [clarity      |-> score_clarity(s),
     accuracy     |-> score_accuracy(s),
     completeness |-> score_completeness(s),
     confidence   |-> score_confidence(s)]

---------------------------------------------------------------------------
(* generate_explanation: app.py:346-439.                                   *)

\* ", ".join(seq) and the like
RECURSIVE Join(_, _)
Join(sep, seq) ==
    IF seq = <<>> THEN ""
    ELSE IF Len(seq) = 1 THEN seq[1]
    ELSE seq[1] \o sep \o Join(sep, Tail(seq))

\* seq[:n]
Take(seq, n) == SubSeq(seq, 1, Min(n, Len(seq)))

\* The table of app.py:466-471 with its default (dim_labels.get(dimension,
\* dimension)), which holds the names of app.py:589-594 too.
dim_labels(dimension) ==
    CASE dimension = "clarity"      -> "Clarity"
      [] dimension = "accuracy"     -> "Technical Accuracy"
      [] dimension = "completeness" -> "Completeness"
      [] dimension = "confidence"   -> "Confidence"
      [] OTHER                      -> dimension

\* str.replace, for the chain of app.py:358 and 435
RECURSIVE ReplaceFrom(_, _, _, _)
ReplaceFrom(s, old, new, i) ==
    IF i + Len(old) - 1 > Len(s) THEN SubSeq(s, i, Len(s))
    ELSE IF SubSeq(s, i, i + Len(old) - 1) = old
    THEN new \o ReplaceFrom(s, old, new, i + Len(old))
    ELSE SubSeq(s, i, i) \o ReplaceFrom(s, old, new, i + 1)

\* s.replace(old, new), old not empty: every occurrence of old, taken from
\* left to right without overlap
Replace(s, old, new) == ReplaceFrom(s, old, new, 1)

\* app.py:358 and 435: the chain of four str.replace
DimLabel(dimension) ==
    Replace(Replace(Replace(Replace(dimension,
                                    "accuracy", "Technical Accuracy"),
                            "clarity", "Clarity"),
                    "completeness", "Completeness"),
            "confidence", "Confidence")

\* app.py:366-432: the evidence cited for a dimension
ExplanationEvidence(dimension, s) ==
    CASE dimension = "clarity" ->
            <<ToString(s.sentenceCount) \o " sentence(s) detected",
              ToString(s.wordCount) \o " words total">>
            \o (IF s.startsWithCapital THEN <<"proper capitalization">>
                ELSE <<>>)
            \o (IF s.uniqueRatio < 40
                THEN <<"high word repetition detected">>
                ELSE IF s.uniqueRatio > 70 THEN <<"diverse vocabulary">>
                ELSE <<>>)
      [] dimension = "accuracy" ->
            <<ToString(Len(s.matchedKeywords)) \o " of "
                  \o ToString(s.totalKeywords) \o " keywords matched">>
            \o (IF s.matchedKeywords # <<>>
                THEN <<"Found: " \o Join(", ", Take(s.matchedKeywords, 5))
                           \o (IF Len(s.matchedKeywords) > 5 THEN "..."
                               ELSE "")>>
                ELSE <<>>)
      [] dimension = "completeness" ->
            <<ToString(s.wordCount) \o " words total",
              ToString(s.sentenceCount) \o " sentence(s)",
              IF s.hasExamples THEN "includes concrete examples"
              ELSE "no specific examples detected">>
      [] dimension = "confidence" ->
            <<IF s.fillerCount = 0 THEN "no filler/hesitation words"
              ELSE ToString(s.fillerCount) \o " filler word(s): "
                       \o Join(", ", Take(s.fillerWordsFound, 4)),
              IF s.assertiveFound # <<>>
              THEN "assertive phrases: "
                       \o Join(", ", Take(s.assertiveFound, 3))
              ELSE "no assertive phrases detected">>
      [] OTHER -> <<>>

\* app.py:376-432: the narrative of a dimension, by score band
ExplanationText(dimension, score) ==
    CASE dimension = "clarity" ->
            IF score >= 700
            THEN "Well-structured response with clear sentence organization."
            ELSE IF score >= 400
            THEN "Adequate structure. Additional sentences would improve readability."
            ELSE "Response lacks sentence structure or is too brief for clear communication."
      [] dimension = "accuracy" ->
            IF score >= 700
            THEN "Strong keyword presence indicates solid understanding of the topic."
            ELSE IF score >= 400
            THEN "Some relevant concepts present but key terms are missing."
            ELSE "Very few domain-relevant terms detected in the response."
      [] dimension = "completeness" ->
            IF score >= 700
            THEN "Thorough response covering multiple facets of the question."
            ELSE IF score >= 400
            THEN "Covers the basics but could explore the topic further."
            ELSE "Response is too brief or narrow to be considered complete."
      [] dimension = "confidence" ->
            IF score >= 700
            THEN "Confident, assertive tone with minimal hesitation."
            ELSE IF score >= 400
            THEN "Moderate confidence. Some uncertainty phrases dilute the message."
            ELSE "Response suggests significant uncertainty or excessive hedging."
      [] OTHER -> ""

generate_explanation(dimension, score, s) ==
    IF s.isGibberish
    THEN [dimension |-> DimLabel(dimension),
          score |-> score,
          text |-> "Response appears to be nonsensical or gibberish. Please provide a meaningful answer.",
          signalsDetected |->
              <<"non-meaningful content detected",
                "only " \o ToString(s.realWordRatio)
                    \o "% recognizable words">>]
    ELSE [dimension |-> DimLabel(dimension),
          score |-> score,
          text |-> ExplanationText(dimension, score),
          signalsDetected |-> ExplanationEvidence(dimension, s)]

---------------------------------------------------------------------------
(* generate_suggestion: app.py:446-536.  The texts are the code's, with    *)
(* its dashes written "-"; the three icons are named.                      *)

_suggestion_low(dimension, s) ==
    IF dimension = "clarity"
    THEN IF s.wordCount < 15
         THEN "Your response is very brief. Aim for at least 3-4 complete sentences with a clear beginning, middle, and conclusion."
         ELSE IF s.uniqueRatio < 40
         THEN "There is noticeable word repetition. Vary your vocabulary and structure thoughts into distinct sentences."
         ELSE "Improve clarity by organizing your answer into clear sentences. Start with your main point, support with details, then summarize."
    ELSE IF dimension = "accuracy"
    THEN IF s.matchedKeywords = <<>>
         THEN "Your answer did not include key technical terms. Review the topic and incorporate specific terminology and concepts."
         ELSE "Only " \o ToString(Len(s.matchedKeywords))
                  \o " relevant term(s) detected. Use more domain-specific vocabulary and reference concrete concepts."
    ELSE IF dimension = "completeness"
    THEN IF s.wordCount < 15
         THEN "Your response is too brief. Expand with at least 3-5 sentences covering different aspects of the question."
         ELSE "Your answer covers limited ground. Address multiple facets and include specific examples to demonstrate depth."
    ELSE IF s.fillerCount > 3
         THEN "Multiple hesitation phrases detected ('"
                  \o Join("', '", Take(s.fillerWordsFound, 3))
                  \o "'). Practice delivering answers with direct, assertive language."
         ELSE "The response conveys uncertainty. Use definitive statements like 'I achieved...' or 'I built...' to project confidence."

_suggestion_medium(dimension, s) ==
    IF dimension = "clarity"
    THEN IF s.sentenceCount < 3
         THEN "Your answer is reasonably clear but could benefit from additional sentences to fully develop your point."
         ELSE "Good clarity foundation. Ensure each sentence transitions smoothly to the next for a cohesive narrative."
    ELSE IF dimension = "accuracy"
    THEN "You referenced " \o ToString(Len(s.matchedKeywords)) \o " of "
             \o ToString(s.totalKeywords)
             \o " expected concepts. Mentioning more domain-specific terms would elevate accuracy."
    ELSE IF dimension = "completeness"
    THEN IF ~s.hasExamples
         THEN "Solid answer overall. Adding a concrete example or use case would make it more complete and convincing."
         ELSE "Good detail level. Consider expanding on additional angles or trade-offs to demonstrate comprehensive understanding."
    ELSE IF s.fillerCount > 0
         THEN "Your answer is confident overall, but reducing hesitation phrases like '"
                  \o s.fillerWordsFound[1] \o "' would strengthen delivery."
         ELSE "Confident tone detected. Adding a personal achievement statement would further reinforce self-assurance."

_suggestion_high(dimension, s) ==
    IF dimension = "clarity"
    THEN "Excellent clarity! Well-structured and easy to follow. To reach the next level, consider using transition phrases between ideas."
    ELSE IF dimension = "accuracy"
    THEN "Strong technical accuracy with " \o ToString(Len(s.matchedKeywords))
             \o " relevant concepts. For even greater impact, relate concepts to real-world applications."
    ELSE IF dimension = "completeness"
    THEN IF s.hasExamples
         THEN "Very thorough response with examples included. Exceptional completeness - maintain this standard across all answers."
         ELSE "Comprehensive answer. Adding a brief example would make it truly outstanding."
    ELSE IF s.assertiveFound # <<>>
         THEN "Highly confident delivery with assertive language. This projects professionalism - keep this approach."
         ELSE "Strong confident tone. Consider adding quantified achievements to amplify impact."

\* Faulty thresholds: 3 and 6 themselves fall in the level above.
SuggestionLevelBelow(score) ==
    IF score < 300 THEN "low" ELSE IF score < 600 THEN "medium" ELSE "high"

\* app.py:453, 460, 464: the branch taken for a score
SuggestionLevel(score) ==
    IF score <= 300 THEN "low" ELSE IF score <= 600 THEN "medium" ELSE "high"

generate_suggestion(score, dimension, s) ==
    IF SuggestionLevel(score) = "low"
    THEN [level |-> "low",
          text |-> _suggestion_low(dimension, s),
          icon |-> "WARNING SIGN",
          score |-> score,
          dimension |-> dim_labels(dimension)]
    ELSE IF SuggestionLevel(score) = "medium"
    THEN [level |-> "medium",
          text |-> _suggestion_medium(dimension, s),
          icon |-> "ELECTRIC LIGHT BULB",
          score |-> score,
          dimension |-> dim_labels(dimension)]
    ELSE [level |-> "high",
          text |-> _suggestion_high(dimension, s),
          icon |-> "WHITE HEAVY CHECK MARK",
          score |-> score,
          dimension |-> dim_labels(dimension)]

---------------------------------------------------------------------------
(* The aggregation: app.py:543-705 and 867-876.                            *)

\* Faulty thresholds: 7.5 and 5 themselves fall in the tier below.
get_readiness_indicator_above(overall) ==
    IF overall > 750
    THEN [label |-> "Strong Candidate",
          level |-> "high",
          description |-> "Demonstrates excellent interview skills across all dimensions.",
          className |-> "readiness-high"]
    ELSE IF overall > 500
    THEN [label |-> "Interview Ready",
          level |-> "medium",
          description |-> "Solid performance with room for targeted improvement.",
          className |-> "readiness-medium"]
    ELSE [label |-> "Needs Preparation",
          level |-> "low",
          description |-> "Additional practice recommended before proceeding to interviews.",
          className |-> "readiness-low"]

get_readiness_indicator(overall) ==
    IF overall >= 750
    THEN [label |-> "Strong Candidate",
          level |-> "high",
          description |-> "Demonstrates excellent interview skills across all dimensions.",
          className |-> "readiness-high"]
    ELSE IF overall >= 500
    THEN [label |-> "Interview Ready",
          level |-> "medium",
          description |-> "Solid performance with room for targeted improvement.",
          className |-> "readiness-medium"]
    ELSE [label |-> "Needs Preparation",
          level |-> "low",
          description |-> "Additional practice recommended before proceeding to interviews.",
          className |-> "readiness-low"]

\* totals[dim] += entry["scores"][dim], entry after entry: the double the
\* loop of app.py:579-584 (and 871-873) leaves in totals[dim].  A stored
\* score is the double nearest to its tenths.
RECURSIVE TotalOf(_, _, _)
TotalOf(answers, dim, n) ==
    IF n = 0 THEN [K |-> 0, E |-> 0]
    ELSE FlAdd(TotalOf(answers, dim, n - 1),
               Fl10(answers[n].scores[dim] \div 10))

\* round(v / count, 1), in hundredths, v a double standing for tenths
DivRound1(total, count) ==
    With(total, LAMBDA v :
         LET q == v.K \div count
             r == v.K % count
         IN  10 * (IF 2 * r < count THEN q
                   ELSE IF 2 * r > count THEN q + 1
                   ELSE RoundTie(q, Sign(FlRound(v.K, v.E, 10 * count).d))))

\* avg = {k: round(v / count, 1) for k, v in totals.items()}
\* app.py:576-586 and 869-874: count is taken of the list before the loop
\* adds up the entries it finds in it.
AveragesOf(summed, count) ==
    [dim \in Range(Dimensions) |->
        DivRound1(TotalOf(summed, dim, Len(summed)), count)]

Averages(answers) == AveragesOf(answers, Len(answers))

\* A faulty overall: the mean is cut to one decimal, not rounded.
OverallOfCutShort(avg) ==
    10 * (((avg["clarity"] + avg["accuracy"] + avg["completeness"]
                           + avg["confidence"]) \div 10) \div 4)

\* round(sum(avg.values()) / 4, 1): the four averages are added in the
\* order of the dict, in doubles (sum() adds from left to right up to
\* Python 3.11); dividing a double by 4 is exact.
OverallOf(avg) ==
    With(FlAdd(FlAdd(FlAdd(Fl10(avg["clarity"] \div 10),
                           Fl10(avg["accuracy"] \div 10)),
                     Fl10(avg["completeness"] \div 10)),
               Fl10(avg["confidence"] \div 10)),
         LAMBDA sum :
         LET q == sum.K \div 4
             r == sum.K % 4
         IN  10 * (IF r < 2 THEN q
                   ELSE IF r > 2 THEN q + 1
                   ELSE RoundTie(q, Sign(sum.E))))

\* A faulty overall among the running averages: the mean is cut to one
\* decimal, not rounded.
WithOverallCutShort(avg) ==
    [clarity      |-> avg["clarity"],
     accuracy     |-> avg["accuracy"],
     completeness |-> avg["completeness"],
     confidence   |-> avg["confidence"],
     overall      |-> OverallOfCutShort(avg)]

\* app.py:875: avg["overall"] = round(sum(avg.values()) / 4, 1)
WithOverall(avg) ==
    [clarity      |-> avg["clarity"],
     accuracy     |-> avg["accuracy"],
     completeness |-> avg["completeness"],
     confidence   |-> avg["confidence"],
     overall      |-> OverallOf(avg)]

_compute_running_averages(answers) ==
    With(Averages(answers), LAMBDA avg : WithOverall(avg))

_strength_note(key, score) ==
    CASE key = "clarity" ->
            IF score >= 700
            THEN "Responses are well-structured and easy to follow."
            ELSE "Answers show reasonable clarity in communication."
      [] key = "accuracy" ->
            IF score >= 700
            THEN "Demonstrates strong domain knowledge with relevant terminology."
            ELSE "Shows adequate understanding of technical concepts."
      [] key = "completeness" ->
            IF score >= 700
            THEN "Provides thorough, multi-faceted responses with supporting detail."
            ELSE "Covers the essential points in each answer."
      [] key = "confidence" ->
            IF score >= 700
            THEN "Communicates with conviction and assertive, professional language."
            ELSE "Maintains a generally confident tone throughout."
      [] OTHER -> ""

_improvement_note(key, score) ==
    CASE key = "clarity" ->
            IF score < 400
            THEN "Needs significantly more structure - practice organizing thoughts before responding."
            ELSE "Could benefit from more polished sentence transitions and flow."
      [] key = "accuracy" ->
            IF score < 400
            THEN "Technical vocabulary is lacking - review core concepts for the target role."
            ELSE "Incorporating more specific terms and concepts would strengthen responses."
      [] key = "completeness" ->
            IF score < 400
            THEN "Answers are too brief - practice expanding with examples and multiple perspectives."
            ELSE "Adding concrete examples and covering more angles would improve depth."
      [] key = "confidence" ->
            IF score < 400
            THEN "Excessive use of hedging language - practice direct, assertive phrasing."
            ELSE "Minor hesitation phrases can be eliminated for a more polished delivery."
      [] OTHER -> ""

\* min(avg, key=avg.get) and max(avg, key=avg.get): the first key, in the
\* order of the dict, that holds the least (greatest) average.
FirstWith(avg, value) ==
    Dimensions[CHOOSE i \in 1..4 :
                   /\ avg[Dimensions[i]] = value
                   /\ \A k \in 1..(i - 1) : avg[Dimensions[k]] # value]

Weakest(avg) ==
    FirstWith(avg, CHOOSE v \in {avg[d] : d \in Range(Dimensions)} :
                       \A d \in Range(Dimensions) : v <= avg[d])

Strongest(avg) ==
    FirstWith(avg, CHOOSE v \in {avg[d] : d \in Range(Dimensions)} :
                       \A d \in Range(Dimensions) : v >= avg[d])

\* app.py:661-705, with the three readings of the list it makes: the
\* entries whose words are added up (675), the length it divides by (676)
\* and the entries searched for an example (677).
NextStepsOf(avg, worded, length, exampled) ==
    LET weakest == Weakest(avg)
        step1 ==
            CASE weakest = "clarity" ->
                    "Practice the STAR method (Situation, Task, Action, Result) to structure answers more clearly."
              [] weakest = "accuracy" ->
                    "Review key technical concepts for your target role and practice using specific terminology."
              [] weakest = "completeness" ->
                    "Before answering, mentally outline 2-3 points to cover, then expand each with detail."
              [] weakest = "confidence" ->
                    "Record yourself answering practice questions and identify filler words to eliminate."
        total_words ==
            SumSeq([i \in 1..Len(worded) |-> worded[i].signals.wordCount])
        avg_words == RoundInt(total_words, length)
        has_any_examples ==
            \E i \in 1..Len(exampled) : exampled[i].signals.hasExamples
        step2 ==
            IF avg_words < 40
            THEN "Your average response length is " \o ToString(avg_words)
                     \o " words. Aim for 50-100 words per answer for more thorough coverage."
            ELSE IF ~has_any_examples
            THEN "None of your answers included specific examples. Practice incorporating real experiences to make responses more compelling."
            ELSE "Continue preparing with mock interviews to build consistency across all dimensions."
        strongest == Strongest(avg)
        step3 ==
            CASE strongest = "clarity" ->
                    "Your communication clarity is a strength - leverage it in presentations and demos."
              [] strongest = "accuracy" ->
                    "Your technical knowledge is solid - consider deepening into specialized areas."
              [] strongest = "completeness" ->
                    "Your thoroughness stands out - channel this skill into technical documentation."
              [] strongest = "confidence" ->
                    "Your confident delivery is impressive - consider mentoring peers on interview prep."
    IN  <<step1, step2, step3>>

_generate_next_steps(avg, answers) ==
    NextStepsOf(avg, answers, Len(answers), answers)

\* A faulty sort: ascending, reverse=True left out.
SortedDimsAscending(avg) ==
    LET before(i, k) ==
            \/ avg[Dimensions[i]] < avg[Dimensions[k]]
            \/ (avg[Dimensions[i]] = avg[Dimensions[k]] /\ i < k)
    IN  [p \in 1..4 |->
            Dimensions[CHOOSE i \in 1..4 :
                Cardinality({k \in 1..4 : before(k, i)}) = p - 1]]

\* dim_list.sort(key=lambda d: d["score"], reverse=True): a stable sort,
\* so dimensions with equal averages keep the order of dim_list.
SortedDims(avg) ==
    LET before(i, k) ==
            \/ avg[Dimensions[i]] > avg[Dimensions[k]]
            \/ (avg[Dimensions[i]] = avg[Dimensions[k]] /\ i < k)
    IN  [p \in 1..4 |->
            Dimensions[CHOOSE i \in 1..4 :
                Cardinality({k \in 1..4 : before(k, i)}) = p - 1]]

\* Python's None: a record, so that it can be compared with a dict.
None == [py |-> "None"]

\* app.py:587-630: the insights made of the averages and of the next steps
InsightsOf(avg, next_steps) ==
         With(<<OverallOf(avg), SortedDims(avg)>>, LAMBDA t :
         LET overall == t[1]
             dim_list == t[2]
             top == SelectSeq(SubSeq(dim_list, 1, 2),
                              LAMBDA d : avg[d] >= 500)
             bottom == SelectSeq(SubSeq(dim_list, 3, 4),
                                 LAMBDA d : avg[d] < 800)
         IN  [overall |-> overall,
              averages |-> avg,
              strengths |->
                  [i \in 1..Len(top) |->
                      [name  |-> dim_labels(top[i]),
                       score |-> avg[top[i]],
                       note  |-> _strength_note(top[i], avg[top[i]])]],
              improvements |->
                  [i \in 1..Len(bottom) |->
                      [name  |-> dim_labels(bottom[i]),
                       score |-> avg[bottom[i]],
                       note  |-> _improvement_note(bottom[i],
                                                   avg[bottom[i]])]],
              nextSteps |-> next_steps,
              readiness |-> get_readiness_indicator(overall)])

compute_overall_insights(answers) ==
    IF answers = <<>> THEN None
    ELSE With(Averages(answers), LAMBDA avg :
             InsightsOf(avg, _generate_next_steps(avg, answers)))

---------------------------------------------------------------------------
(* The inputs of the requests the model sends.                             *)

\* The longest answer sequence a session is let grow to.
MaxAnswers == 2

\* A session id a client names; a request without one means "default".
SessionIdInputs == {"s1"}

\* Question ids a client names: one of the bank, one unknown.
QuestionIdInputs == {4, 9}

\* Answers a client sends: a blank one, a keyboard mash and a real answer,
\* with white space around them.
AnswerInputs ==
    {" \f\t ",
     " asdf qwer zxcv\n",
     "I have led a team. For example, we built software and shared feedback, I think. "}

---------------------------------------------------------------------------
(* The HTTP handlers: app.py:731-864.  Each is a function of the store and *)
(* of the request's JSON body (None, or a dict that may lack any key) to   *)
(* the store it leaves and the reply it sends.                             *)

\* d.get(key, default)
Get(d, key, default) == IF key \in DOMAIN d THEN d[key] ELSE default

\* {"answers": [], "user": None}
NewSession == [answers |-> <<>>, user |-> None]

\* return jsonify({"error": message}), status
ErrorReply(status, message) == [status |-> status, body |-> [error |-> message]]

\* The question of the bank with this id: the loop of app.py:750-754.
\* A faulty lookup: an unknown id is answered with the first question.
FindQuestionOrFirst(question_id) == QUESTIONS[1]

FindQuestion(question_id) ==
    LET hits == {i \in 1..Len(QUESTIONS) : QUESTIONS[i].id = question_id}
    IN  IF hits = {} THEN None
        ELSE QUESTIONS[CHOOSE i \in hits : \A k \in hits : i <= k]

\* app.py:759-787: the record stored for an answer
AnswerEntry(question_id, question, answer) ==
    LET sig == detect_signals(answer, question)
        scores == compute_scores(sig)
    IN  [questionId   |-> question_id,
         question     |-> question,
         answer       |-> answer,
         scores       |-> scores,
         explanations |->
             [i \in 1..4 |->
                 generate_explanation(Dimensions[i], scores[Dimensions[i]],
                                      sig)],
         suggestions  |->
             [dim \in Range(Dimensions) |->
                 generate_suggestion(scores[dim], dim, sig)],
         signals      |-> sig]

\* app.py:775-787: the store after the answer is filed
StoreAnswer(store, session_id, entry) ==
    LET created == IF session_id \notin DOMAIN store
                   THEN store @@ (session_id :> NewSession)
                   ELSE store
    IN  [created EXCEPT ![session_id].answers = Append(@, entry)]

\* The entries of the answers the model sends, worked out once: an entry
\* is a function of the question and the stripped answer alone.
EntryCache ==
    [key \in {<<q, Strip(a)>> : q \in {q \in QuestionIdInputs :
                                           FindQuestion(q) # None},
                                a \in {a \in AnswerInputs : Strip(a) # ""}} |->
        AnswerEntry(key[1], FindQuestion(key[1]), key[2])]

EntryOf(question_id, question, answer) ==
    IF <<question_id, answer>> \in DOMAIN EntryCache
    THEN EntryCache[<<question_id, answer>>]
    ELSE AnswerEntry(question_id, question, answer)

\* app.py:789-809: the reply of a success, from the entry filed and the
\* sequence read back from the store
EvaluateReply(question_id, entry, running_avg) ==
        [status |-> 200,
         body |->
             [questionId |-> question_id,
              scores |-> entry.scores,
              explanations |-> entry.explanations,
              suggestions |-> entry.suggestions,
              signals |->
                  [wordCount |-> entry.signals.wordCount,
                   sentenceCount |-> entry.signals.sentenceCount,
                   matchedKeywords |-> entry.signals.matchedKeywords,
                   fillerWordsFound |-> entry.signals.fillerWordsFound,
                   hasExamples |-> entry.signals.hasExamples,
                   isGibberish |-> entry.signals.isGibberish,
                   realWordRatio |-> entry.signals.realWordRatio],
              runningAverages |-> running_avg,
              readiness |->
                  get_readiness_indicator(running_avg.overall)]]

SuccessReply(question_id, entry, all_answers) ==
    With(_compute_running_averages(all_answers), LAMBDA running_avg :
        EvaluateReply(question_id, entry, running_avg))

evaluate_answer(store, data) ==
    IF data = None \/ DOMAIN data = {}
    THEN [sessions |-> store,
          reply |-> ErrorReply(400, "No JSON body provided")]
    ELSE
    LET session_id == Get(data, "sessionId", "default")
        answer == Strip(Get(data, "answer", ""))
        question == IF "questionId" \in DOMAIN data
                    THEN FindQuestion(data.questionId) ELSE None
    IN  IF answer = ""
        THEN [sessions |-> store,
              reply |-> ErrorReply(400, "Answer cannot be empty")]
        ELSE IF question = None
        THEN [sessions |-> store,
              reply |-> ErrorReply(404,
                  "Question "
                  \o (IF "questionId" \in DOMAIN data
                      THEN ToString(data.questionId) ELSE "None")
                  \o " not found")]
        ELSE
        With(EntryOf(data.questionId, question, answer), LAMBDA entry :
        With(StoreAnswer(store, session_id, entry), LAMBDA stored :
            [sessions |-> stored,
             reply |-> SuccessReply(data.questionId, entry,
                                    stored[session_id].answers)]))

\* if session_id not in sessions or not sessions[session_id]["answers"]
NoInterviewData(store, session_id) ==
    session_id \notin DOMAIN store \/ store[session_id].answers = <<>>

\* app.py:828-855: the reply of a report, from the insights and from the
\* entries the loop of app.py:830 finds in the list.  generatedAt is the
\* clock's reading; the model writes "now".
ReportReply(interviewer, ins, answers) ==
    [status |-> 200,
     body |->
         [appName |-> "Selectra",
          tagline |-> "Where interviews meet insight.",
          generatedAt |-> "now",
          interviewer |-> interviewer,
          overallScore |-> ins.overall,
          dimensionAverages |-> ins.averages,
          readinessIndicator |-> ins.readiness,
          interviewInsights |->
              [strengths |-> ins.strengths,
               improvementAreas |-> ins.improvements,
               actionableNextSteps |-> ins.nextSteps],
          responses |->
              [i \in 1..Len(answers) |->
                  [questionId |-> answers[i].questionId,
                   category |-> answers[i].question.category,
                   question |-> answers[i].question.text,
                   answer |-> answers[i].answer,
                   scores |-> answers[i].scores,
                   explanations |-> answers[i].explanations,
                   suggestions |-> answers[i].suggestions]]]]

final_report(store, json) ==
    LET data == IF json = None THEN <<>> ELSE json
        session_id == Get(data, "sessionId", "default")
        interviewer == Get(data, "interviewer", <<>>)
    IN  IF NoInterviewData(store, session_id)
        THEN [sessions |-> store,
              reply |-> ErrorReply(404,
                  "No interview data found for this session")]
        ELSE
        LET answers == store[session_id].answers IN
        With(compute_overall_insights(answers), LAMBDA ins :
            [sessions |-> store,
             reply |-> ReportReply(interviewer, ins, answers)])

reset_session(store, json) ==
    LET data == IF json = None THEN <<>> ELSE json
        session_id == Get(data, "sessionId", "default")
    IN  [sessions |-> [k \in DOMAIN store \cup {session_id} |->
                          IF k = session_id THEN NewSession ELSE store[k]],
         reply |-> [status |-> 200,
                    body |-> [message |-> "Session reset successfully"]]]

---------------------------------------------------------------------------
(* The JSON bodies of the requests.                                        *)

\* A key of a body is given as a set: {v} for the value v, {} when the
\* body lacks the key.
Optional(S) == {{v} : v \in S} \cup {{}}

Body(fields) ==
    [k \in {f \in DOMAIN fields : fields[f] # {}} |->
        CHOOSE v \in fields[k] : TRUE]

\* Every JSON body of an evaluate request: no body, and the dicts with or
\* without each of the three keys (the empty dict among them).
EvaluateBodies ==
    {None} \cup
    {Body([sessionId |-> s, questionId |-> q, answer |-> a]) :
        s \in Optional(SessionIdInputs),
        q \in Optional(QuestionIdInputs),
        a \in Optional(AnswerInputs)}

Interviewers == {[name |-> "Ada", email |-> "ada@example.org"]}

FinalReportBodies ==
    {None} \cup
    {Body([sessionId |-> s, interviewer |-> i]) :
        s \in Optional(SessionIdInputs), i \in Optional(Interviewers)}

ResetBodies ==
    {None} \cup {Body([sessionId |-> s]) : s \in Optional(SessionIdInputs)}

---------------------------------------------------------------------------
(* A variable that is not in use.                                          *)

Idle == None

---------------------------------------------------------------------------
(* The scorers on Signals values: app.py:193-339, applied as               *)
(* evaluate_answer applies them (app.py:762-773).                          *)

\* Word counts on both sides of every threshold the scorers test.
WordCounts ==
    {0, 1, 9, 10, 14, 15, 19, 20, 29, 30, 39, 40, 49, 50, 79, 80, 200, 201}

\* The largest sentence count and filler count given.
MaxSentences == 6

MaxFillers == 6

\* Ratios in hundredths, on both sides of the thresholds tested.
UniqueRatios == {39, 40, 71}

RealWordRatios == {0, 33, 50, 67}

KeywordRatios == {0, 4, 5, 14, 15, 24, 25, 34, 35, 49, 50, 100}

\* A Signals value as detect_signals lays it out (app.py:175-190): m
\* keywords of question q matched, fc filler occurrences, na assertive
\* phrases.
MakeSignals(q, wc, sc, ur, m, kmr, fc, na, ex, cap, rwr, gib) ==
    [wordCount         |-> wc,
     sentenceCount     |-> sc,
     uniqueRatio       |-> ur,
     matchedKeywords   |-> Take(QUESTIONS[q].keywords, m),
     totalKeywords     |-> Len(QUESTIONS[q].keywords),
     keywordMatchRatio |-> kmr,
     fillerWordsFound  |-> Take(FILLER_WORDS, fc),
     fillerCount       |-> fc,
     assertiveFound    |-> Take(ASSERTIVE_PHRASES, na),
     hasExamples       |-> ex,
     startsWithCapital |-> cap,
     avgSentenceLen    |-> avg_sentence_len(wc, sc),
     realWordRatio     |-> rwr,
     isGibberish       |-> gib]

\* Signals that vary what score_clarity reads.
ClaritySignals ==
    {MakeSignals(1, wc, sc, ur, 2, 11, 0, 0, FALSE, cap, rwr, gib) :
        wc \in WordCounts, sc \in 0..MaxSentences, ur \in UniqueRatios,
        cap \in BOOLEAN, rwr \in RealWordRatios, gib \in BOOLEAN}
    \cup {MakeSignals(1, 3, 1, 100, 0, 0, 0, 0, FALSE, FALSE, rwr, TRUE) :
              rwr \in 0..100}

\* Signals that vary what score_accuracy reads: the ratios the bank's
\* questions give (app.py:131-133), and ratios given freely.
BankSignals(q) ==
    {MakeSignals(q, 40, 3, 80, m,
                 keyword_match_ratio(m, Len(QUESTIONS[q].keywords)),
                 0, 0, FALSE, TRUE, 100, gib) :
        m \in 0..Len(QUESTIONS[q].keywords), gib \in BOOLEAN}

AccuracySignals ==
    UNION {BankSignals(q) : q \in 1..Len(QUESTIONS)}
    \cup {MakeSignals(1, 40, 3, 80, m, kmr, 0, 0, FALSE, TRUE, 100, gib) :
              m \in {0, 5, 6, 18}, kmr \in KeywordRatios, gib \in BOOLEAN}

\* Signals that vary what score_completeness reads.
CompletenessSignals ==
    {MakeSignals(1, wc, sc, 80, 2, 11, 0, 0, ex, TRUE, 100, gib) :
        wc \in WordCounts, sc \in 0..MaxSentences, ex \in BOOLEAN,
        gib \in BOOLEAN}

\* Signals that vary what score_confidence reads.
ConfidenceSignals ==
    {MakeSignals(1, wc, 2, 80, 2, 11, fc, na, FALSE, TRUE, rwr, gib) :
        wc \in WordCounts, fc \in 0..MaxFillers,
        na \in 0..Len(ASSERTIVE_PHRASES), rwr \in {79, 80},
        gib \in BOOLEAN}

\* Answers of 90 words in 5 sentences to a question of the bank, with any
\* number of its keywords matched, with and without an example phrase.
LongAnswerSignals ==
    UNION {{MakeSignals(q, 90, 5, 80, m,
                        keyword_match_ratio(m, Len(QUESTIONS[q].keywords)),
                        1, 1, ex, TRUE, 100, gib) :
               m \in 0..Len(QUESTIONS[q].keywords), ex \in BOOLEAN,
               gib \in BOOLEAN} :
           q \in 1..Len(QUESTIONS)}

SignalsInputs ==
    ClaritySignals \cup AccuracySignals \cup CompletenessSignals
        \cup ConfidenceSignals \cup LongAnswerSignals

InitScore ==
    /\ sessions = <<>>
    /\ response = None
    /\ signals \in SignalsInputs
    /\ arg_score = Idle
    /\ arg_dimension = Idle
    /\ result = Idle
    /\ answers_data = Idle
    /\ insights = Idle
    /\ threads = Idle
    /\ heap = Idle

\* app.py:762-773: the scores of the signals, then an explanation and a
\* suggestion for each dimension's score.
ScoreSignals ==
    /\ result = Idle
    /\ \E scores \in {compute_scores(signals)} :
           result' =
               [scores |-> scores,
                explanations |->
                    [i \in 1..Len(Dimensions) |->
                        generate_explanation(Dimensions[i],
                                             scores[Dimensions[i]], signals)],
                suggestions |->
                    [dim \in Range(Dimensions) |->
                        generate_suggestion(scores[dim], dim, signals)]]
    /\ UNCHANGED <<sessions, response, signals, arg_score, arg_dimension,
                   answers_data, insights, threads, heap>>

NextScore == ScoreSignals

SpecScore == InitScore /\ [][NextScore]_vars

---------------------------------------------------------------------------
(* The generators on scores: app.py:346-479, one call of each for a score, *)
(* a dimension and a Signals value.                                        *)

\* The largest score given, in tenths.
MaxScoreTenths == 100

\* Every score the scorers' rounding can give: the multiples of 0.1.
ScoreInputs == {10 * k : k \in 0..MaxScoreTenths}

\* A brief hesitant answer, a long assured one, and a keyboard mash.
AdviceSignals ==
    {MakeSignals(1, 9, 1, 39, 0, 0, 4, 0, FALSE, FALSE, 67, FALSE),
     MakeSignals(2, 90, 5, 80, 7, 39, 0, 2, TRUE, TRUE, 95, FALSE),
     MakeSignals(3, 3, 1, 100, 0, 0, 0, 0, FALSE, FALSE, 33, TRUE)}

InitAdvice ==
    /\ sessions = <<>>
    /\ response = None
    /\ signals \in AdviceSignals
    /\ arg_score \in ScoreInputs
    /\ arg_dimension \in Range(Dimensions)
    /\ result = Idle
    /\ answers_data = Idle
    /\ insights = Idle
    /\ threads = Idle
    /\ heap = Idle

\* app.py:768 and 773: the explanation and the suggestion of a score.
Advise ==
    /\ result = Idle
    /\ result' =
           [explanation |->
                generate_explanation(arg_dimension, arg_score, signals),
            suggestion |->
                generate_suggestion(arg_score, arg_dimension, signals)]
    /\ UNCHANGED <<sessions, response, signals, arg_score, arg_dimension,
                   answers_data, insights, threads, heap>>

NextAdvice == Advise

SpecAdvice == InitAdvice /\ [][NextAdvice]_vars

---------------------------------------------------------------------------
(* The aggregation on sequences of stored answers: app.py:568-630.         *)

\* The longest sequence aggregated.
MaxAggregated == 2

\* What the aggregation reads of a stored answer (app.py:579-584 and
\* 675-677): its scores and its signals.
ResultOf(s) == [scores |-> compute_scores(s), signals |-> s]

\* Answers that are short or long, with few or many keywords, hesitant or
\* assured; a middling one; and a keyboard mash.
AggregatedSignals ==
    {MakeSignals(1, len[1], len[2], 80, m, keyword_match_ratio(m, 18),
                 tone[1], tone[2], len[3], TRUE, 100, FALSE) :
        len \in {<<9, 1, FALSE>>, <<90, 5, TRUE>>}, m \in {0, 5, 9},
        tone \in {<<5, 0>>, <<0, 4>>}}
    \cup {MakeSignals(2, 30, 3, 60, 4, 24, 1, 1, FALSE, FALSE, 90, FALSE),
          MakeSignals(3, 3, 1, 100, 0, 0, 0, 0, FALSE, FALSE, 33, TRUE)}

\* More answers, aggregated alone.
AloneSignals ==
    {MakeSignals(1, wc, sc, 80, m, keyword_match_ratio(m, 18), fc, na, ex,
                 TRUE, 100, FALSE) :
        wc \in {9, 20, 45, 90}, sc \in {1, 3, 5}, m \in {0, 3, 6, 9},
        fc \in {0, 2, 5}, na \in {0, 2}, ex \in BOOLEAN}

RECURSIVE SeqsOf(_, _)
SeqsOf(S, n) ==
    IF n = 0 THEN {<<>>}
    ELSE {Append(q, x) : q \in SeqsOf(S, n - 1), x \in S}

AnswersDataInputs ==
    UNION {SeqsOf({ResultOf(x) : x \in AggregatedSignals}, n) :
              n \in 1..MaxAggregated}
    \cup {<<ResultOf(x)>> : x \in AloneSignals}

InitAggregate ==
    /\ sessions = <<>>
    /\ response = None
    /\ signals = Idle
    /\ arg_score = Idle
    /\ arg_dimension = Idle
    /\ result = Idle
    /\ answers_data \in AnswersDataInputs
    /\ insights = Idle
    /\ threads = Idle
    /\ heap = Idle

\* app.py:826: insights = compute_overall_insights(answers_data)
Aggregate ==
    /\ insights = Idle
    /\ insights' = compute_overall_insights(answers_data)
    /\ UNCHANGED <<sessions, response, signals, arg_score, arg_dimension,
                   result, answers_data, threads, heap>>

NextAggregate == Aggregate

SpecAggregate == InitAggregate /\ [][NextAggregate]_vars

---------------------------------------------------------------------------
(* The readiness tier of an overall score: app.py:543-565.                 *)

InitReadiness ==
    /\ sessions = <<>>
    /\ response = None
    /\ signals = Idle
    /\ arg_score \in ScoreInputs
    /\ arg_dimension = Idle
    /\ result = Idle
    /\ answers_data = Idle
    /\ insights = Idle
    /\ threads = Idle
    /\ heap = Idle

\* app.py:617: readiness = get_readiness_indicator(overall)
Rate ==
    /\ result = Idle
    /\ result' = get_readiness_indicator(arg_score)
    /\ UNCHANGED <<sessions, response, signals, arg_score, arg_dimension,
                   answers_data, insights, threads, heap>>

NextReadiness == Rate

SpecReadiness == InitReadiness /\ [][NextReadiness]_vars

---------------------------------------------------------------------------
(* The server: the three handlers of app.py:731-864, run by the threads of *)
(* the server (app.py:888) on the one dict of app.py:101, with no lock.  A *)
(* thread works on its own locals until it touches the dict or a list it   *)
(* got from the dict; each such touch is a step, and the steps of the      *)
(* threads interleave.  The lists have identity: a thread keeps the list   *)
(* it fetched, whatever the dict holds later.  sessions holds the lists    *)
(* the dict holds now, and heap the lists that the dict has let go of      *)
(* while a thread still holds them; a thread's list is 0 for the list of   *)
(* its session, or the place in heap of the list it holds.  A list is only *)
(* ever appended to, so what a loop over it finds is the list as it is     *)
(* when the loop ends; the thread keeps the length it found.               *)

\* The number of requests served at once, when each thread serves one.
MaxThreads == 3

ThreadIds == 1..MaxThreads

\* The number of threads that serve request after request.
MaxAtOnce == 2

ServerIds == 1..MaxAtOnce

\* Every request: each kind with every one of its bodies.
Requests ==
    {[op |-> "evaluate", data |-> d] : d \in EvaluateBodies}
    \cup {[op |-> "final-report", data |-> d] : d \in FinalReportBodies}
    \cup {[op |-> "reset", data |-> d] : d \in ResetBodies}

\* The answers sent at once: the blank one and the keyboard mash.
ConcurrentAnswers == {a \in AnswerInputs : Len(Strip(a)) < 20}

\* The requests served at once: evaluates with a session id or none (which
\* means "default"), final-reports and resets likewise.
ConcurrentRequests ==
    {[op |-> "evaluate",
      data |-> Body([sessionId |-> s, questionId |-> q, answer |-> a])] :
        s \in Optional(SessionIdInputs),
        q \in {{v} : v \in QuestionIdInputs},
        a \in {{v} : v \in ConcurrentAnswers}}
    \cup {[op |-> "final-report", data |-> Body([sessionId |-> s])] :
             s \in Optional(SessionIdInputs)}
    \cup {[op |-> "reset", data |-> Body([sessionId |-> s])] :
             s \in Optional(SessionIdInputs)}

\* app.py:741, 819, 862: session_id = data.get("sessionId", "default"),
\* data being {} when the request has no body (app.py:818, 861)
SessionIdOf(data) ==
    Get(IF data = None THEN <<>> ELSE data, "sessionId", "default")

\* A thread with no request to serve.
Waiting == [pc |-> "waiting"]

\* The locals of a thread at work: the request, the entry an evaluate has
\* made, the list fetched last, and what was found in that list: the count
\* taken of it (app.py:576, 869) and the lengths the loops of app.py:579,
\* 675 and 677 and the len() of app.py:676 found.
Locals(pc, op, data) ==
    [pc |-> pc, op |-> op, data |-> data,
     session_id |-> SessionIdOf(data),
     entry |-> None, list |-> 0, count |-> 0, summed |-> 0, worded |-> 0,
     length |-> 0, exampled |-> 0]

\* A thread that has made its reply.
Done(t, reply) ==
    [pc |-> "done", op |-> threads[t].op, data |-> threads[t].data,
     session_id |-> threads[t].session_id, entry |-> threads[t].entry,
     reply |-> reply]

\* app.py:738-773, 818-820, 861-862: the request is read and, for an
\* evaluate, checked and scored, all on locals.  An evaluate that is
\* rejected is done.
Received(op, data) ==
    IF op = "evaluate"
    THEN With(evaluate_answer(<<>>, data), LAMBDA alone :
             IF alone.reply.status # 200
             THEN [pc |-> "done", op |-> op, data |-> data,
                   session_id |-> SessionIdOf(data), entry |-> None,
                   reply |-> alone.reply]
             ELSE [Locals("test", op, data) EXCEPT
                      !.entry = alone.sessions[SessionIdOf(data)]
                                    .answers[1]])
    ELSE IF op = "final-report" THEN Locals("present", op, data)
    ELSE Locals("reset", op, data)

\* What Flask replies when the handler raises: round(v / count, 1) of
\* app.py:874 with count = 0.
ZeroDivisionReply ==
    [status |-> 500, body |-> [error |-> "ZeroDivisionError"]]

\* What Flask replies when the handler raises: insights["overall"] of
\* app.py:846 with insights = None.
TypeErrorReply ==
    [status |-> 500, body |-> [error |-> "TypeError"]]

\* The steps at which a thread holds a list it fetched and has yet to use.
Holding ==
    {"append", "count", "sum", "nonempty", "insights", "total", "scores",
     "words", "length", "examples", "responses", "unreported"}

\* The list a thread holds.
ListOf(t) ==
    IF threads[t].list = 0
    THEN sessions[threads[t].session_id].answers
    ELSE heap[threads[t].list]

\* The first n entries of the list a thread holds.
Found(t, n) == SubSeq(ListOf(t), 1, n)

\* Of the lists the dict has let go of, those a thread still holds.
Kept(lists, locals) ==
    [k \in {locals[u].list :
               u \in {v \in DOMAIN locals :
                         locals[v].pc \in Holding /\ locals[v].list # 0}}
        |-> lists[k]]

\* A faulty install: a session the dict holds already is left as it is.
InstalledIfAbsent(store, sid) ==
    [k \in DOMAIN store \cup {sid} |->
        IF k \in DOMAIN store THEN store[k] ELSE NewSession]

\* A faulty install: every session of the dict is made anew.
InstalledOverAll(store, sid) ==
    [k \in DOMAIN store \cup {sid} |-> NewSession]

\* app.py:777, 863: sessions[session_id] = {"answers": [], "user": None}
Installed(store, sid) ==
    [k \in DOMAIN store \cup {sid} |->
        IF k = sid THEN NewSession ELSE store[k]]

\* A faulty append: the entry is put in front.
AppendedInFront(list, entry) == <<entry>> \o list

\* app.py:779-787: list.append(entry)
Appended(list, entry) == Append(list, entry)

\* A faulty test: every list counts as empty.
IsEmptyAlways(list) == TRUE

\* app.py:822, 573: not list
IsEmpty(list) == list = <<>>

\* No thread is serving a request.
Quiet == \A t \in DOMAIN threads : threads[t].pc = "waiting"

\* What is known of the request being served: whether it is served alone
\* (it came in when no thread was serving and none that a thread takes up
\* has come in since), and if so the store it found.
Serving(alone) ==
    [op |-> "serving", data |-> None, status |-> 0, body |-> None,
     alone |-> alone, found |-> IF alone THEN sessions ELSE <<>>]

\* The rest of the variables.
others == <<signals, arg_score, arg_dimension, result, answers_data,
            insights>>

\* The thread goes on to its next step, with these locals; a list no
\* thread holds any more is gone.
Goes(t, locals) ==
    /\ threads' = [threads EXCEPT ![t] = locals]
    /\ heap' = Kept(heap, threads')
    /\ UNCHANGED <<response, others>>

\* {"answers": [], "user": None} is made and put in the dict by thread t,
\* which goes on with these locals.  The threads that hold the list the
\* session had go on holding it.
Installs(t, locals) ==
    LET sid == threads[t].session_id
        holders == {u \in DOMAIN threads \ {t} :
                       /\ threads[u].pc \in Holding
                       /\ threads[u].list = 0
                       /\ threads[u].session_id = sid}
        place == CHOOSE k \in 1..Cardinality(DOMAIN threads) :
                     /\ k \notin DOMAIN heap
                     /\ \A j \in 1..(k - 1) : j \in DOMAIN heap
    IN  /\ sessions' = Installed(sessions, sid)
        /\ threads' =
               [u \in DOMAIN threads |->
                   IF u = t THEN locals
                   ELSE IF u \in holders
                        THEN [threads[u] EXCEPT !.list = place]
                        ELSE threads[u]]
        /\ heap' =
               IF holders = {} THEN Kept(heap, threads')
               ELSE Kept([k \in DOMAIN heap \cup {place} |->
                             IF k \in DOMAIN heap THEN heap[k]
                             ELSE sessions[sid].answers],
                         threads')
        /\ UNCHANGED <<response, others>>

\* The evaluates on a session that have yet to append.
Appending(sid) ==
    {u \in DOMAIN threads :
        /\ threads[u].pc \in {"test", "create", "fetch", "append"}
        /\ threads[u].session_id = sid}

\* The reply sent to a request that was served alone, with the store the
\* request found.
Sent(done, found) ==
    [op |-> done.op, data |-> done.data, status |-> done.reply.status,
     body |-> done.reply.body, alone |-> TRUE, found |-> found]

\* app.py:738-773, 818-820, 861-862: a request comes in to a thread that
\* has none.  An evaluate that is rejected has touched nothing but its
\* locals, and its reply is sent at once.  A session takes MaxAnswers
\* answers at most.
Arrives(t, request) ==
    /\ threads[t].pc = "waiting"
    /\ \E locals \in {Received(request.op, request.data)} :
           IF locals.pc = "done"
           THEN /\ response' = IF Quiet THEN Sent(locals, sessions)
                                ELSE response
                /\ UNCHANGED threads
           ELSE /\ locals.pc = "test" =>
                       Len(IF locals.session_id \in DOMAIN sessions
                           THEN sessions[locals.session_id].answers
                           ELSE <<>>)
                           + Cardinality(Appending(locals.session_id))
                       < MaxAnswers
                /\ threads' = [threads EXCEPT ![t] = locals]
                /\ response' = Serving(Quiet)
    /\ UNCHANGED <<sessions, heap, others>>

\* The requests being served are all of those served at once.
ServingAtOnce ==
    \A u \in DOMAIN threads :
        threads[u].pc # "waiting" =>
            [op |-> threads[u].op, data |-> threads[u].data]
                \in ConcurrentRequests

\* A request, of any kind and with any body, comes in; while a request is
\* being served, it is one of those served at once, as are the requests
\* being served.
Receive(t) ==
    \E request \in Requests :
        /\ Quiet \/ (request \in ConcurrentRequests /\ ServingAtOnce)
        /\ Arrives(t, request)

\* One of the requests served at once comes in.
ReceiveAtOnce(t) == \E request \in ConcurrentRequests : Arrives(t, request)

\* app.py:776: if session_id not in sessions
TestSession(t) ==
    /\ threads[t].pc = "test"
    /\ Goes(t, [threads[t] EXCEPT !.pc =
                   IF threads[t].session_id \notin DOMAIN sessions
                   THEN "create" ELSE "fetch"])
    /\ UNCHANGED sessions

\* app.py:777: sessions[session_id] = {"answers": [], "user": None}
CreateSession(t) ==
    /\ threads[t].pc = "create"
    /\ Installs(t, [threads[t] EXCEPT !.pc = "fetch"])

\* app.py:779: sessions[session_id]["answers"], the list to append to
FetchAnswers(t) ==
    /\ threads[t].pc = "fetch"
    /\ Goes(t, [threads[t] EXCEPT !.pc = "append", !.list = 0])
    /\ UNCHANGED sessions

\* app.py:779-787: .append({...}) on the list fetched
AppendAnswer(t) ==
    /\ threads[t].pc = "append"
    /\ threads' = [threads EXCEPT ![t] = [@ EXCEPT !.pc = "read",
                                                   !.list = 0]]
    /\ IF threads[t].list = 0
       THEN /\ sessions' =
                   [sessions EXCEPT ![threads[t].session_id].answers =
                       Appended(@, threads[t].entry)]
            /\ heap' = Kept(heap, threads')
       ELSE /\ heap' = Kept([heap EXCEPT ![threads[t].list] =
                                Appended(@, threads[t].entry)],
                            threads')
            /\ UNCHANGED sessions
    /\ UNCHANGED <<response, others>>

\* app.py:790: all_answers = sessions[session_id]["answers"]
ReadAnswers(t) ==
    /\ threads[t].pc = "read"
    /\ Goes(t, [threads[t] EXCEPT !.pc = "count", !.list = 0])
    /\ UNCHANGED sessions

\* app.py:869: count = len(answers_data)
CountAnswers(t) ==
    /\ threads[t].pc = "count"
    /\ Goes(t, [threads[t] EXCEPT !.pc = "sum",
                                  !.count = Len(ListOf(t))])
    /\ UNCHANGED sessions

\* app.py:871-876 and 792-809: the loop over the list ends, the averages
\* are made of what it found and of count, and the reply of them
SumAnswers(t) ==
    /\ threads[t].pc = "sum"
    /\ \E reply \in
           {IF threads[t].count = 0 THEN ZeroDivisionReply
            ELSE EvaluateReply(
                     threads[t].data.questionId, threads[t].entry,
                     WithOverall(AveragesOf(ListOf(t), threads[t].count)))} :
           Goes(t, Done(t, reply))
    /\ UNCHANGED sessions

\* app.py:863: sessions[session_id] = {"answers": [], "user": None}, and
\* the reply of app.py:864
ResetSession(t) ==
    /\ threads[t].pc = "reset"
    /\ Installs(t, Done(t, reset_session(<<>>, threads[t].data).reply))

\* app.py:822: session_id not in sessions
ReportTest(t) ==
    /\ threads[t].pc = "present"
    /\ Goes(t, IF threads[t].session_id \notin DOMAIN sessions
               THEN Done(t, final_report(<<>>, threads[t].data).reply)
               ELSE [threads[t] EXCEPT !.pc = "lookup"])
    /\ UNCHANGED sessions

\* app.py:822: sessions[session_id]["answers"], the list to test
ReportLookup(t) ==
    /\ threads[t].pc = "lookup"
    /\ Goes(t, [threads[t] EXCEPT !.pc = "nonempty", !.list = 0])
    /\ UNCHANGED sessions

\* app.py:822-823: not (that list)
ReportNonempty(t) ==
    /\ threads[t].pc = "nonempty"
    /\ Goes(t, IF IsEmpty(ListOf(t))
               THEN Done(t, final_report(<<>>, threads[t].data).reply)
               ELSE [threads[t] EXCEPT !.pc = "answers", !.list = 0])
    /\ UNCHANGED sessions

\* app.py:825: answers_data = sessions[session_id]["answers"]
ReportFetch(t) ==
    /\ threads[t].pc = "answers"
    /\ Goes(t, [threads[t] EXCEPT !.pc = "insights", !.list = 0])
    /\ UNCHANGED sessions

\* app.py:573-574: if not answers_data: return None, and the report goes
\* on to its loop over the list with no insights
ReportInsights(t) ==
    /\ threads[t].pc = "insights"
    /\ Goes(t, [threads[t] EXCEPT !.pc =
                   IF IsEmpty(ListOf(t)) THEN "unreported" ELSE "total"])
    /\ UNCHANGED sessions

\* app.py:829-846: with no insights, the loop over the list ends and
\* insights["overall"] raises
ReportRaises(t) ==
    /\ threads[t].pc = "unreported"
    /\ Goes(t, Done(t, TypeErrorReply))
    /\ UNCHANGED sessions

\* app.py:576: count = len(answers_data)
ReportCount(t) ==
    /\ threads[t].pc = "total"
    /\ Goes(t, [threads[t] EXCEPT !.pc = "scores",
                                  !.count = Len(ListOf(t))])
    /\ UNCHANGED sessions

\* app.py:579-584: the loop over the list ends
ReportSum(t) ==
    /\ threads[t].pc = "scores"
    /\ Goes(t, [threads[t] EXCEPT !.pc = "words",
                                  !.summed = Len(ListOf(t))])
    /\ UNCHANGED sessions

\* app.py:675: sum(entry["signals"]["wordCount"] for entry in answers_data)
ReportWords(t) ==
    /\ threads[t].pc = "words"
    /\ Goes(t, [threads[t] EXCEPT !.pc = "length",
                                  !.worded = Len(ListOf(t))])
    /\ UNCHANGED sessions

\* app.py:676: len(answers_data)
ReportLen(t) ==
    /\ threads[t].pc = "length"
    /\ Goes(t, [threads[t] EXCEPT !.pc = "examples",
                                  !.length = Len(ListOf(t))])
    /\ UNCHANGED sessions

\* app.py:677: any(entry["signals"]["hasExamples"] for ...)
ReportExamples(t) ==
    /\ threads[t].pc = "examples"
    /\ Goes(t, [threads[t] EXCEPT !.pc = "responses",
                                  !.exampled = Len(ListOf(t))])
    /\ UNCHANGED sessions

\* app.py:828-855: the loop over the list ends and the reply is made
ReportResponses(t) ==
    /\ threads[t].pc = "responses"
    /\ \E avg \in {AveragesOf(Found(t, threads[t].summed),
                              threads[t].count)} :
       \E reply \in
           {ReportReply(
                Get(threads[t].data, "interviewer", <<>>),
                InsightsOf(avg,
                           NextStepsOf(avg, Found(t, threads[t].worded),
                                       threads[t].length,
                                       Found(t, threads[t].exampled))),
                ListOf(t))} :
           Goes(t, Done(t, reply))
    /\ UNCHANGED sessions

\* The reply is sent, and the thread has no request to serve.
Replies(t) ==
    /\ threads[t].pc = "done"
    /\ threads' = [threads EXCEPT ![t] = Waiting]
    /\ response' = IF response.alone THEN Sent(threads[t], response.found)
                   ELSE response
    /\ UNCHANGED <<sessions, heap, others>>

\* The server at work: MaxAtOnce threads, each serving request after
\* request.
Init ==
    /\ sessions = <<>>
    /\ response = None
    /\ signals = Idle
    /\ arg_score = Idle
    /\ arg_dimension = Idle
    /\ result = Idle
    /\ answers_data = Idle
    /\ insights = Idle
    /\ threads = [t \in ServerIds |-> Waiting]
    /\ heap = <<>>

Next ==
    \E t \in ServerIds :
        \/ Receive(t)
        \/ TestSession(t)
        \/ CreateSession(t)
        \/ FetchAnswers(t)
        \/ AppendAnswer(t)
        \/ ReadAnswers(t)
        \/ CountAnswers(t)
        \/ SumAnswers(t)
        \/ ResetSession(t)
        \/ ReportTest(t)
        \/ ReportLookup(t)
        \/ ReportNonempty(t)
        \/ ReportFetch(t)
        \/ ReportInsights(t)
        \/ ReportRaises(t)
        \/ ReportCount(t)
        \/ ReportSum(t)
        \/ ReportWords(t)
        \/ ReportLen(t)
        \/ ReportExamples(t)
        \/ ReportResponses(t)
        \/ Replies(t)

Spec == Init /\ [][Next]_vars

\* MaxThreads requests served at once on a new store, each by a thread of
\* its own.
InitConcurrent ==
    /\ sessions = <<>>
    /\ response = None
    /\ signals = Idle
    /\ arg_score = Idle
    /\ arg_dimension = Idle
    /\ result = Idle
    /\ answers_data = Idle
    /\ insights = Idle
    /\ threads = [t \in ThreadIds |-> Waiting]
    /\ heap = <<>>

NextConcurrent ==
    \E t \in ThreadIds :
        \/ ReceiveAtOnce(t)
        \/ TestSession(t)
        \/ CreateSession(t)
        \/ FetchAnswers(t)
        \/ AppendAnswer(t)
        \/ ReadAnswers(t)
        \/ CountAnswers(t)
        \/ SumAnswers(t)
        \/ ResetSession(t)
        \/ ReportTest(t)
        \/ ReportLookup(t)
        \/ ReportNonempty(t)
        \/ ReportFetch(t)
        \/ ReportInsights(t)
        \/ ReportRaises(t)
        \/ ReportCount(t)
        \/ ReportSum(t)
        \/ ReportWords(t)
        \/ ReportLen(t)
        \/ ReportExamples(t)
        \/ ReportResponses(t)

SpecConcurrent == InitConcurrent /\ [][NextConcurrent]_vars

---------------------------------------------------------------------------
(* What the requests do to the store.  response is the reply sent last and *)
(* what is known of its request; when the request was served alone (no     *)
(* other request was being served from its coming in to its reply), the    *)
(* store is what that request has made of the store it found.              *)

\* The session a request body names.
SessionOf(data) ==
    IF data # None /\ "sessionId" \in DOMAIN data
    THEN data.sessionId ELSE "default"

\* The answer sequence the store holds for a session id, empty if it holds
\* none.
AnswersOf(store, sid) ==
    IF sid \in DOMAIN store THEN store[sid].answers ELSE <<>>

\* The reply sent last is the one to a request of kind op.
Replied(op) == response # None /\ response.op = op

Accepted(op) == Replied(op) /\ response.status = 200

\* The reply sent last is the one to a request of kind op that was served
\* alone.
Served(op) == Replied(op) /\ response.alone

\* C1: the store is append-only in arrival order.  Of requests served one
\* after the other, a successful evaluate leaves, in its session, the
\* sequence it found followed by exactly one new AnswerResult holding the
\* request's question id and stripped answer; a final-report leaves every
\* sequence as it was; and but for the session a reset names, every
\* sequence keeps the entries it had where they were.
C1_AppendOnly ==
    \A op \in {"evaluate", "final-report", "reset"} :
        Served(op) =>
            LET sid == SessionOf(response.data)
                old == AnswersOf(response.found, sid)
                new == AnswersOf(sessions, sid)
            IN  /\ op = "evaluate" /\ response.status = 200 =>
                    /\ Len(new) = Len(old) + 1
                    /\ SubSeq(new, 1, Len(old)) = old
                    /\ new[Len(new)].questionId = response.data.questionId
                    /\ \E i \in 1..Len(response.data.answer) :
                           \E j \in i..Len(response.data.answer) :
                               new[Len(new)].answer =
                                   SubSeq(response.data.answer, i, j)
                    /\ new[Len(new)].scores = response.body.scores
                    /\ new[Len(new)].signals.wordCount =
                           response.body.signals.wordCount
                /\ op = "final-report" => sessions = response.found
                /\ \A other \in DOMAIN response.found :
                       ~(op = "reset" /\ other = sid) =>
                           /\ other \in DOMAIN sessions
                           /\ SubSeq(sessions[other].answers, 1,
                                     Len(response.found[other].answers))
                                  = response.found[other].answers

\* C1 witness: a second, different answer has been appended to a session
\* by an evaluate served alone.
C1_Witness ==
    /\ Served("evaluate") /\ response.status = 200
    /\ LET answers == AnswersOf(sessions, SessionOf(response.data))
       IN  /\ Len(answers) = 2
           /\ answers[1].answer # answers[2].answer
           /\ answers[2].scores = response.body.scores
           /\ AnswersOf(response.found, SessionOf(response.data))
                  = <<answers[1]>>

\* The reply is the error with this status and message.
Rejected(reply, status, message) ==
    reply.status = status /\ reply.body = [error |-> message]

EmptyInputError(reply) ==
    Rejected(reply, 404, "No interview data found for this session")

\* C2: of requests served one after the other, a reset leaves the session
\* it names with an empty answer sequence, whatever the store held for it;
\* an empty sequence stays empty until an evaluate on that session
\* succeeds; and a final-report on a session with an empty sequence is
\* answered with the empty-input error.
C2_ResetThenNoReport ==
    \A op \in {"evaluate", "final-report", "reset"} :
        Served(op) =>
            LET sid == SessionOf(response.data)
            IN  /\ op = "reset" =>
                    sid \in DOMAIN sessions /\ sessions[sid].answers = <<>>
                /\ \A s \in DOMAIN response.found :
                       /\ response.found[s].answers = <<>>
                       /\ ~(op = "evaluate" /\ response.status = 200
                                            /\ sid = s)
                       => s \in DOMAIN sessions /\ sessions[s].answers = <<>>
                /\ op = "final-report" /\ sid \in DOMAIN response.found
                                       /\ response.found[sid].answers = <<>>
                    => EmptyInputError(response)

\* C2 witness: a final-report served alone was refused on a session that a
\* reset had emptied (only a reset leaves a session with no answers) while
\* another session still holds answers.
C2_Witness ==
    /\ Served("final-report")
    /\ EmptyInputError(response)
    /\ SessionOf(response.data) \in DOMAIN response.found
    /\ sessions[SessionOf(response.data)].answers = <<>>
    /\ \E s \in DOMAIN sessions : sessions[s].answers # <<>>

\* The text is blank: nothing but white space.
IsBlank(text) == \A i \in 1..Len(text) : Char(text, i) \in Whitespace

InBank(question_id) == \E i \in 1..Len(QUESTIONS) : QUESTIONS[i].id = question_id

\* C3: an evaluate whose answer is blank (or missing) is answered with the
\* empty-answer error whatever question it names, one whose answer is not
\* blank but whose question id is not in the bank with the not-found error,
\* and a rejected evaluate, served with no other request, leaves the store
\* as it found it.
C3_RejectedEvaluate ==
    Replied("evaluate") =>
        LET data == response.data
            given == data # None /\ DOMAIN data # {}
            blank == given /\ ("answer" \in DOMAIN data => IsBlank(data.answer))
            known == given /\ "questionId" \in DOMAIN data
                           /\ InBank(data.questionId)
        IN  /\ blank => Rejected(response, 400, "Answer cannot be empty")
            /\ given /\ ~blank /\ ~known =>
                   /\ response.status = 404
                   /\ response.body =
                          [error |-> "Question "
                              \o (IF "questionId" \in DOMAIN data
                                  THEN ToString(data.questionId)
                                  ELSE "None")
                              \o " not found"]
            /\ response.alone /\ response.status # 200 =>
                   sessions = response.found
            /\ response.alone /\ (blank \/ ~known) =>
                   sessions = response.found

\* C3 witness: a blank answer to a question that is not in the bank was
\* refused as an empty answer, and the session it named does not exist.
C3_Witness ==
    /\ Served("evaluate")
    /\ Rejected(response, 400, "Answer cannot be empty")
    /\ "answer" \in DOMAIN response.data /\ Len(response.data.answer) > 0
    /\ "questionId" \in DOMAIN response.data
    /\ ~InBank(response.data.questionId)
    /\ SessionOf(response.data) \notin DOMAIN sessions
    /\ sessions # <<>>

\* C4: a final-report served with no other request is answered with the
\* empty-input error exactly when the store holds no answer for the
\* session it names (no entry, or an empty sequence); otherwise it
\* succeeds with the insights of the sequence; either way the store is
\* left as it was.  The core function itself gives no insights for the
\* empty sequence.
C4_EmptyInput ==
    Served("final-report") =>
        LET answers == AnswersOf(response.found, SessionOf(response.data))
        IN  /\ sessions = response.found
            /\ answers = <<>> => EmptyInputError(response)
            /\ answers # <<>> =>
                   /\ response.status = 200
                   /\ "error" \notin DOMAIN response.body
                   /\ response.body.overallScore \in 0..1000
                   /\ Len(response.body.responses) = Len(answers)
            /\ compute_overall_insights(<<>>) = None

\* C4 witness: a final-report served alone succeeded on a session holding
\* two answers.
C4_Witness ==
    /\ Served("final-report") /\ response.status = 200
    /\ Len(AnswersOf(sessions, SessionOf(response.data))) = 2
    /\ Len(response.body.responses) = 2

---------------------------------------------------------------------------
(* What the scorers return.                                                *)

Scored == result # Idle

\* C5: each of the four scores of a Signals value lies in [0, 10] and is a
\* multiple of 0.1 (scores are in hundredths here).
C5_ScoresInRange ==
    Scored =>
        \A dim \in Range(Dimensions) :
            /\ result.scores[dim] \in 0..1000
            /\ result.scores[dim] % 10 = 0

\* C5 witness: a short answer full of fillers, whose confidence adds up to
\* less than nothing (5 - 2 - 4) and is returned as 0.
C5_Witness ==
    /\ Scored
    /\ ~signals.isGibberish
    /\ signals.wordCount < 10
    /\ signals.fillerCount >= 5
    /\ signals.assertiveFound = <<>>
    /\ result.scores["confidence"] = 0

\* C6: when isGibberish holds, accuracy, completeness and confidence are
\* 0 and clarity is the multiple of 0.1 nearest to min(1, 2 * realWordRatio),
\* whatever the other signals are.
C6_GibberishScores ==
    Scored /\ signals.isGibberish =>
        /\ result.scores["accuracy"] = 0
        /\ result.scores["completeness"] = 0
        /\ result.scores["confidence"] = 0
        /\ result.scores["clarity"] % 10 = 0
        /\ LET target == IF 2 * signals.realWordRatio < 100
                         THEN 2 * signals.realWordRatio ELSE 100
               gap == result.scores["clarity"] - target
           IN  -5 < gap /\ gap < 5

\* C6 witness: a Signals value marked gibberish although it matches six
\* keywords or more and half of its words are real.
C6_Witness ==
    /\ Scored
    /\ signals.isGibberish
    /\ Len(signals.matchedKeywords) >= 6
    /\ signals.keywordMatchRatio >= 50
    /\ signals.wordCount >= 30
    /\ result.scores["accuracy"] = 0

\* The Signals value is one detect_signals gives for a question of the
\* bank, as far as score_accuracy reads it.
OfTheBank(s) ==
    \E q \in 1..Len(QUESTIONS) :
        /\ s.totalKeywords = Len(QUESTIONS[q].keywords)
        /\ Len(s.matchedKeywords) <= s.totalKeywords
        /\ s.keywordMatchRatio =
               keyword_match_ratio(Len(s.matchedKeywords), s.totalKeywords)

\* C8: among the Signals the bank's questions give that are not gibberish,
\* a larger keywordMatchRatio never comes with a smaller accuracy score,
\* and an equal one comes with the same score.
C8_AccuracyMonotone ==
    Scored /\ ~signals.isGibberish /\ OfTheBank(signals) =>
        \A q \in 1..Len(QUESTIONS) :
            \A other \in {o \in BankSignals(q) : ~o.isGibberish} :
                /\ other.keywordMatchRatio > signals.keywordMatchRatio
                       => score_accuracy(other) >= result.scores["accuracy"]
                /\ other.keywordMatchRatio = signals.keywordMatchRatio
                       => score_accuracy(other) = result.scores["accuracy"]

\* C8 witness: six of eighteen keywords matched: the ratio 0.33 is below
\* the 0.35 step and the score has the bonus of six matches.
C8_Witness ==
    /\ Scored
    /\ ~signals.isGibberish
    /\ OfTheBank(signals)
    /\ Len(signals.matchedKeywords) = 6
    /\ signals.keywordMatchRatio = 33
    /\ result.scores["accuracy"] = 700

\* C7: the level of a suggestion is low exactly for scores up to 3, medium
\* exactly for scores above 3 and up to 6, high exactly for scores above 6,
\* in every dimension; and each level has its one icon.
C7_SuggestionLevel ==
    Scored =>
        LET given == result.suggestion
        IN  /\ given.level \in {"low", "medium", "high"}
            /\ given.level = "low" <=> arg_score <= 300
            /\ given.level = "medium" <=> 300 < arg_score /\ arg_score <= 600
            /\ given.level = "high" <=> arg_score > 600
            /\ given.icon =
                   CASE given.level = "low" -> "WARNING SIGN"
                     [] given.level = "medium" -> "ELECTRIC LIGHT BULB"
                     [] given.level = "high" -> "WHITE HEAVY CHECK MARK"

\* C7 witness: the score 6.0, the last one of the medium level, in the
\* confidence dimension.
C7_Witness ==
    /\ Scored /\ arg_score = 600
    /\ arg_dimension = "confidence"
    /\ result.suggestion.level = "medium"

---------------------------------------------------------------------------
(* What the aggregation returns.                                           *)

Aggregated == insights # Idle

\* The four scores of a stored answer, added up (in hundredths).
SumOfScores(entry) ==
    entry.scores["clarity"] + entry.scores["accuracy"]
        + entry.scores["completeness"] + entry.scores["confidence"]

\* C9: for a sequence of one answer the averages are that answer's four
\* scores, and overall is a multiple of 0.1 nearest to the mean of the
\* four scores.
C9_SingleAnswer ==
    Aggregated /\ Len(answers_data) = 1 =>
        /\ \A dim \in Range(Dimensions) :
               insights.averages[dim] = answers_data[1].scores[dim]
        /\ insights.overall % 10 = 0
        /\ 4 * insights.overall - SumOfScores(answers_data[1]) \in -20..20

\* C9 witness: one answer whose mean score lies halfway between two
\* multiples of 0.1, none of its scores being the same as another.
C9_Witness ==
    /\ Aggregated /\ Len(answers_data) = 1
    /\ SumOfScores(answers_data[1]) % 40 = 20
    /\ Cardinality({answers_data[1].scores[dim] :
                        dim \in Range(Dimensions)}) = 4
    /\ insights.averages = answers_data[1].scores

\* The dimensions whose average is above (below) the score.
Above(avg, v) == {dim \in Range(Dimensions) : avg[dim] > v}

Below(avg, v) == {dim \in Range(Dimensions) : avg[dim] < v}

DimensionOf(name) == CHOOSE dim \in Range(Dimensions) : dim_labels(dim) = name

\* C10: the insights of a non-empty sequence hold at most 2 strengths,
\* each a dimension of average >= 5 that at most one dimension exceeds, no
\* dimension twice; at most 2 improvement areas, each a dimension of
\* average < 8 that at most one dimension is below, no dimension twice;
\* and exactly 3 next steps.
C10_InsightsShape ==
    Aggregated /\ answers_data # <<>> =>
        LET avg == insights.averages
            names(list) == {list[i].name : i \in 1..Len(list)}
        IN  /\ Len(insights.strengths) <= 2
            /\ Cardinality(names(insights.strengths))
                   = Len(insights.strengths)
            /\ \A i \in 1..Len(insights.strengths) :
                   LET x == insights.strengths[i]
                   IN  /\ x.name \in {dim_labels(dim) : dim \in Range(Dimensions)}
                       /\ x.score = avg[DimensionOf(x.name)]
                       /\ x.score >= 500
                       /\ Cardinality(Above(avg, x.score)) <= 1
            /\ Len(insights.improvements) <= 2
            /\ Cardinality(names(insights.improvements))
                   = Len(insights.improvements)
            /\ \A i \in 1..Len(insights.improvements) :
                   LET x == insights.improvements[i]
                   IN  /\ x.name \in {dim_labels(dim) : dim \in Range(Dimensions)}
                       /\ x.score = avg[DimensionOf(x.name)]
                       /\ x.score < 800
                       /\ Cardinality(Below(avg, x.score)) <= 1
            /\ Len(insights.nextSteps) = 3
            /\ \A i \in 1..3 : Len(insights.nextSteps[i]) > 0

\* C10 witness: two answers whose averages give one strength only (the
\* second highest average is below 5) and two improvement areas.
C10_Witness ==
    /\ Aggregated /\ Len(answers_data) = 2
    /\ answers_data[1] # answers_data[2]
    /\ Len(insights.strengths) = 1
    /\ Len(insights.improvements) = 2
    /\ Len(insights.nextSteps) = 3

---------------------------------------------------------------------------
(* The readiness tier.                                                     *)

\* C11: the tier of an overall score is Strong Candidate exactly from 7.5
\* up, Interview Ready exactly from 5 up to below 7.5, Needs Preparation
\* exactly below 5, and the level, description and style tag go with the
\* label.
C11_ReadinessTier ==
    Scored =>
        /\ result.label \in {"Strong Candidate", "Interview Ready",
                              "Needs Preparation"}
        /\ result.label = "Strong Candidate" <=> arg_score >= 750
        /\ result.label = "Interview Ready"
               <=> 500 <= arg_score /\ arg_score < 750
        /\ result.label = "Needs Preparation" <=> arg_score < 500
        /\ result.level =
               CASE result.label = "Strong Candidate" -> "high"
                 [] result.label = "Interview Ready" -> "medium"
                 [] result.label = "Needs Preparation" -> "low"
        /\ result.className = "readiness-" \o result.level

\* C11 witness: the overall score 7.5, the first of the top tier.
C11_Witness ==
    /\ Scored /\ arg_score = 750
    /\ result.label = "Strong Candidate"

---------------------------------------------------------------------------
(* The keyboard mash "asdf qwer zxcv".                                     *)

\* The last request was an evaluate of the answer "asdf qwer zxcv" (sent
\* with white space around it) and it was accepted.
MashEvaluated ==
    /\ Accepted("evaluate")
    /\ Strip(response.data.answer) = "asdf qwer zxcv"

\* C12 as stated: evaluating "asdf qwer zxcv" yields isGibberish = true,
\* clarity <= 1.0 and accuracy, completeness and confidence 0.0.
C12_AsStated ==
    MashEvaluated =>
        /\ response.body.signals.isGibberish
        /\ response.body.scores["clarity"] <= 100
        /\ response.body.scores["accuracy"] = 0
        /\ response.body.scores["completeness"] = 0
        /\ response.body.scores["confidence"] = 0

\* C12 amended: "asdf" and "qwer" have three letters or more and a vowel,
\* so evaluating "asdf qwer zxcv" (3 words, no keyword matched) yields
\* realWordRatio 0.67 and isGibberish = false, and the scores of a brief
\* answer: clarity 3.0, accuracy 1.5, completeness 2.0, confidence 3.0.
C12_KeyboardMash ==
    MashEvaluated =>
        /\ response.body.signals.wordCount = 3
        /\ response.body.signals.matchedKeywords = <<>>
        /\ response.body.signals.realWordRatio = 67
        /\ ~response.body.signals.isGibberish
        /\ response.body.scores["clarity"] = 300
        /\ response.body.scores["accuracy"] = 150
        /\ response.body.scores["completeness"] = 200
        /\ response.body.scores["confidence"] = 300

\* C12 witness: the mash was evaluated against question 4.
C12_Witness ==
    /\ MashEvaluated
    /\ response.data.questionId = 4
    /\ response.data.answer = " asdf qwer zxcv\n"
    /\ response.body.signals.wordCount = 3

---------------------------------------------------------------------------
(* The long answer with six keywords and an example.                       *)

\* A non-gibberish answer of 90 words and 5 sentences to a question of the
\* bank, matching 6 or more of its keywords and holding an example phrase,
\* has been scored.
LongAnswerScored ==
    /\ Scored
    /\ ~signals.isGibberish
    /\ OfTheBank(signals)
    /\ signals.wordCount = 90
    /\ signals.sentenceCount = 5
    /\ Len(signals.matchedKeywords) >= 6
    /\ signals.hasExamples

\* C13 as stated: such an answer gets accuracy >= 9 and completeness >= 8.
C13_AsStated ==
    LongAnswerScored =>
        /\ result.scores["accuracy"] >= 900
        /\ result.scores["completeness"] >= 800

\* C13 amended: such an answer gets completeness 9.0 and an accuracy of
\* 7.0 or more: 7.0 while keywordMatchRatio is below 0.35 (6 of 18
\* keywords), 8.5 from 0.35 up, and 10.0, the only one that is >= 9, from
\* 0.5 up.
C13_LongAnswer ==
    LongAnswerScored =>
        /\ result.scores["completeness"] = 900
        /\ result.scores["accuracy"] =
               IF signals.keywordMatchRatio >= 50 THEN 1000
               ELSE IF signals.keywordMatchRatio >= 35 THEN 850
               ELSE 700
        /\ result.scores["accuracy"] >= 900
               <=> 2 * Len(signals.matchedKeywords) >= signals.totalKeywords

\* C13 witness: six of eighteen keywords matched, accuracy 7.0.
C13_Witness ==
    /\ LongAnswerScored
    /\ Len(signals.matchedKeywords) = 6
    /\ signals.totalKeywords = 18
    /\ result.scores["accuracy"] = 700
    /\ result.scores["completeness"] = 900

---------------------------------------------------------------------------
(* The suggestion levels against the documented ranges and the bands of    *)
(* generate_explanation.                                                   *)

\* The band generate_explanation chooses its text by (app.py:376-381 and
\* the same tests in the three other dimensions).
BandOf(score) ==
    IF score >= 700 THEN "strong"
    ELSE IF score >= 400 THEN "adequate" ELSE "weak"

\* The level that goes with a band.
LevelOfBand(band) ==
    CASE band = "strong" -> "high"
      [] band = "adequate" -> "medium"
      [] band = "weak" -> "low"

\* C14 as stated: for every score the scorers give, a high-level suggestion
\* is returned only when score >= 7 and a medium-level one only when
\* score >= 4, so the level of the suggestion is the one of the band
\* generate_explanation chooses for the same score.
C14_LevelsAgreeWithBands ==
    Scored =>
        \A i \in 1..Len(Dimensions) :
            LET dim == Dimensions[i]
                given == result.suggestions[dim]
                told == result.explanations[i]
            IN  /\ given.level = "high" => given.score >= 700
                /\ given.level = "medium" => given.score >= 400
                /\ given.score = told.score
                /\ given.level = LevelOfBand(BandOf(told.score))
                /\ ~signals.isGibberish =>
                       told.text = ExplanationText(dim, told.score)

---------------------------------------------------------------------------
(* Requests served at once.                                                *)

\* The thread has served a request.
HasServed(t) == threads[t].pc = "done"

\* Every request that came in has been served.
AllDone == \A t \in ThreadIds : threads[t].pc \in {"waiting", "done"}

\* The evaluate requests that were answered with success for this session
\* and entry.
Succeeded(session_id, entry) ==
    {t \in ThreadIds :
        /\ threads[t].pc = "done"
        /\ threads[t].op = "evaluate"
        /\ threads[t].reply.status = 200
        /\ threads[t].session_id = session_id
        /\ threads[t].entry = entry}

\* The places of the session's sequence that hold this entry.
PlacesOf(session_id, entry) ==
    IF session_id \notin DOMAIN sessions THEN {}
    ELSE LET answers == sessions[session_id].answers
         IN  {i \in 1..Len(answers) : answers[i] = entry}

\* C15 as stated: once all the requests served at once have completed, no
\* reset among them, the session's sequence holds the entry of every
\* evaluate that returned success (as many times as evaluates returned
\* success with it).
C15_NoAnswerLost ==
    (AllDone /\ \A t \in ThreadIds :
                    HasServed(t) => threads[t].op # "reset") =>
        \A t \in ThreadIds :
            (HasServed(t) /\ threads[t].op = "evaluate"
                          /\ threads[t].reply.status = 200) =>
                Cardinality(PlacesOf(threads[t].session_id, threads[t].entry))
                    >= Cardinality(Succeeded(threads[t].session_id,
                                             threads[t].entry))

---------------------------------------------------------------------------
(* The two aggregation paths.                                              *)

\* The scores of the answers in one dimension, added up (in hundredths).
SumOfDimension(answers, dim) ==
    SumSeq([i \in 1..Len(answers) |-> answers[i].scores[dim]])

\* The reply of the handler to a final-report on this session of the
\* store, served with no other request.
ReportOf(store, sid) == final_report(store, [sessionId |-> sid]).reply

\* C16: the running averages (four dimensions and overall) and the
\* readiness that a successful evaluate returns are the dimensionAverages,
\* overallScore and readinessIndicator of a final-report on the same
\* session served right after it, which succeeds; and they count the
\* answer just submitted: it is the last of the session's sequence and each
\* running average is within 0.05 of the mean over the whole sequence.
\* The requests are served one after the other; the reply a final-report
\* then gets is the one of the handler on the store it found.
C16_PathsAgree ==
    /\ Served("evaluate") /\ response.status = 200 =>
          LET sid == SessionOf(response.data)
              answers == AnswersOf(sessions, sid)
              ran == response.body.runningAverages
          IN  /\ answers # <<>>
              /\ answers[Len(answers)].scores = response.body.scores
              /\ \A dim \in Range(Dimensions) :
                     LET off == Len(answers) * ran[dim]
                                    - SumOfDimension(answers, dim)
                     IN  -5 * Len(answers) <= off /\ off <= 5 * Len(answers)
              /\ \E next \in {ReportOf(sessions, sid)} :
                     /\ next.status = 200
                     /\ next.body.dimensionAverages =
                            [dim \in Range(Dimensions) |-> ran[dim]]
                     /\ next.body.overallScore = ran.overall
                     /\ next.body.readinessIndicator =
                            response.body.readiness
    /\ Served("final-report") =>
          \E alone \in {final_report(response.found, response.data).reply} :
              response.status = alone.status /\ response.body = alone.body

\* C16 witness: an evaluate served alone has succeeded on a session that
\* now holds two answers with different scores, the last of which is the
\* keyboard mash, and its running averages are not the scores of either
\* answer.
C16_Witness ==
    /\ Served("evaluate") /\ response.status = 200
    /\ LET answers == AnswersOf(sessions, SessionOf(response.data))
           ran == [dim \in Range(Dimensions) |->
                      response.body.runningAverages[dim]]
       IN  /\ Len(answers) = 2
           /\ answers[1].scores # answers[2].scores
           /\ answers[2].answer = "asdf qwer zxcv"
           /\ ran # answers[1].scores
           /\ ran # answers[2].scores
           /\ ran = Averages(answers)

---------------------------------------------------------------------------
(* Sessions apart.                                                         *)

\* The store with nothing but this session.
OnlySession(store, sid) ==
    [k \in DOMAIN store \cap {sid} |-> store[k]]

\* C17: a request naming a session, served with no other request, leaves
\* the answer sequence of every other session as it was, and the reply to
\* a final-report is the one the handler gives on a store holding the
\* named session alone.
C17_SessionsApart ==
    \A op \in {"evaluate", "final-report", "reset"} :
        Served(op) =>
            LET sid == SessionOf(response.data)
            IN  /\ \A other \in (DOMAIN sessions
                                    \cup DOMAIN response.found) \ {sid} :
                       AnswersOf(sessions, other)
                           = AnswersOf(response.found, other)
                /\ op = "final-report" =>
                       \E alone \in {final_report(
                                         OnlySession(response.found, sid),
                                         response.data).reply} :
                           /\ response.status = alone.status
                           /\ response.body = alone.body

\* C17 witness: a reset naming "s1", served alone, has left it empty from
\* one answer, while the session "default" holds its two answers.
C17_Witness ==
    /\ Served("reset") /\ response.status = 200
    /\ SessionOf(response.data) = "s1"
    /\ Len(AnswersOf(response.found, "s1")) = 1
    /\ AnswersOf(sessions, "s1") = <<>>
    /\ Len(AnswersOf(sessions, "default")) = 2

=============================================================================
